---- MODULE Spec2Model ----
(***************************************************************************)
(* Model of the TESIS_SOILING batch pipeline: solar-noon session           *)
(* selection (download_data.py), alignment of the instruments to the       *)
(* Soiling Kit sessions (analysis/align/align_to_soiling_kit.py) and the    *)
(* Soiling Ratio stages (analysis/sr/*.py).                                 *)
(*                                                                         *)
(* Time is counted in ticks of 30 seconds (so that the 2.5 min bin centre  *)
(* and the 7.5 min tolerance are whole numbers).  Floating point values    *)
(* are exact rationals [num, den]; NaN is the rational with den = 0.       *)
(* A CSV file is a record; its rows are a sequence in file order (a set    *)
(* where the program does not depend on the order).                        *)
(***************************************************************************)
EXTENDS Integers, Sequences, FiniteSets, TLC

VARIABLES
    soiling_kit_csv,        \* raw Soiling Kit table read by the solar-noon selector
    solar_noon,             \* pvlib: date -> instant of maximum solar elevation
    solar_noon_csv,         \* data/soilingkit/soilingkit_solar_noon.csv
    solys2_csv,             \* data/solys2/solys2_poa_500_clear_sky.csv
    modulo_csv,             \* section -> data/<section>/<section>_poa_500_clear_sky.csv
    align,                  \* argument and local variables of the last run_align call
    filas,                  \* section -> the aligner's list `filas` (one entry per matched session)
    aligned_csv,            \* section -> data/<section>/<section>_aligned_solar_noon.csv
    sr_csv,                 \* name -> analysis/sr/<name>.csv
    excepciones,            \* entry points whose last call ended with an exception
    agregacion,             \* local variables of the last agregacion_semanal.run call
    stats_csv,              \* name -> table written by analysis/stats
    sr_semanal_norm,        \* analysis/stats/sr_semanal_norm.csv and sr_semanal_norm_largo.csv
    correlacion,            \* results of analysis/correlacion
    anova                   \* results of analysis/anova

vars_analisis == <<excepciones, agregacion, stats_csv, sr_semanal_norm, correlacion, anova>>

vars == <<soiling_kit_csv, solar_noon, solar_noon_csv, solys2_csv, modulo_csv,
          align, filas, aligned_csv, sr_csv,
          excepciones, agregacion, stats_csv, sr_semanal_norm, correlacion, anova>>

---------------------------------------------------------------------------
(* Units of time, in ticks of 30 s *)

MIN == 2
BIN_5MIN == 10
HALF_BIN == 5
DAY == 2880
TOL_5MIN == 15
MAX_DIST_SOLAR_NOON_MIN == 50
MAX_DISTANCIA_IRREGULAR_MIN == 60
SANTIAGO_UTC_OFFSET == 0 - 480

---------------------------------------------------------------------------
(* Exact rationals standing for the floats of the program *)

Abs(x) == IF x < 0 THEN 0 - x ELSE x

RECURSIVE GCD(_, _)
GCD(a, b) == IF b = 0 THEN a ELSE GCD(b, a % b)

NaN == [num |-> 0, den |-> 0]

Rat(n, d) ==
    IF d = 0 THEN NaN
    ELSE LET g == GCD(Abs(n), Abs(d))
             s == IF d < 0 THEN 0 - 1 ELSE 1
         IN  [num |-> (s * n) \div g, den |-> (s * d) \div g]

IntR(n) == [num |-> n, den |-> 1]

isna(x) == x.den = 0

RAdd(a, b) == IF isna(a) \/ isna(b) THEN NaN
              ELSE Rat(a.num * b.den + b.num * a.den, a.den * b.den)
RSub(a, b) == IF isna(a) \/ isna(b) THEN NaN
              ELSE Rat(a.num * b.den - b.num * a.den, a.den * b.den)
RMul(a, b) == IF isna(a) \/ isna(b) THEN NaN
              ELSE Rat(a.num * b.num, a.den * b.den)
\* x / 0 is inf or nan in numpy; every use in the program is guarded by np.where
RDiv(a, b) == IF isna(a) \/ isna(b) \/ b.num = 0 THEN NaN
              ELSE Rat(a.num * b.den, a.den * b.num)
\* comparisons with NaN are False
RLt(a, b) == ~isna(a) /\ ~isna(b) /\ a.num * b.den < b.num * a.den
RLe(a, b) == ~isna(a) /\ ~isna(b) /\ a.num * b.den <= b.num * a.den
RAbs(a) == [num |-> Abs(a.num), den |-> a.den]

\* x > 1e-9: every value of the model has a denominator below 10^9,
\* so it exceeds 1e-9 exactly when its numerator is at least 1
GtEps(x) == ~isna(x) /\ x.num >= 1

---------------------------------------------------------------------------
(* Sequences and tables *)

Range(s) == {s[i] : i \in 1..Len(s)}

RECURSIVE SumR(_, _)
SumR(s, col) == IF s = <<>> THEN IntR(0) ELSE RAdd(s[1][col], SumR(Tail(s), col))

\* pandas Series.mean / DataFrame.mean: NaN cells are skipped; all-NaN gives NaN
MeanR(s, col) ==
    LET ok == SelectSeq(s, LAMBDA r : ~isna(r[col]))
    IN  IF ok = <<>> THEN NaN ELSE RDiv(SumR(ok, col), IntR(Len(ok)))

RECURSIVE Concat(_)
Concat(ss) == IF ss = <<>> THEN <<>> ELSE ss[1] \o Concat(Tail(ss))

\* the elements of a set as a sequence (summation order does not matter)
RECURSIVE SeqOf(_)
SeqOf(S) == IF S = {} THEN <<>>
            ELSE LET m == CHOOSE x \in S : TRUE IN <<m>> \o SeqOf(S \ {m})

\* sort_values("_date") / sorted(fechas): a set of rows with pairwise
\* distinct field date, as the sequence in increasing date
RECURSIVE SortByDate(_)
SortByDate(S) ==
    IF S = {} THEN <<>>
    ELSE LET m == CHOOSE x \in S : \A y \in S : x.date <= y.date
         IN  <<m>> \o SortByDate(S \ {m})

---------------------------------------------------------------------------
(* Timestamps *)

\* round("5min") in place of floor("5min")
floor5_round(t) == ((t + HALF_BIN) \div BIN_5MIN) * BIN_5MIN

\* Series.dt.floor("5min")
floor5(t) == (t \div BIN_5MIN) * BIN_5MIN

\* Series.dt.date
dt_date(t) == t \div DAY

\* utcoffset of the zone tz_local ("America/Santiago")
utcoffset(tz_local) == SANTIAGO_UTC_OFFSET

\* tz_local ignored: the values are taken as UTC
ensure_utc_sin_tz_local(t, aware, off, tz_local) == IF ~aware THEN t ELSE t - off

\* A time column is the wall clock value t written in the file plus the
\* offset of the file (aware, off); the result is the UTC instant.
ensure_utc(t, aware, off, tz_local) ==
    IF tz_local # "None"
    THEN t - utcoffset(tz_local)
    ELSE IF ~aware THEN t ELSE t - off

---------------------------------------------------------------------------
(* download_data.py: soiling_kit_seleccionar_mediodia_solar *)

\* tz_localize('UTC') of a naive column, tz_convert('UTC') of an aware one
sk_utc(csv, t) == IF ~csv.aware THEN t ELSE t - csv.off

\* _mediodia_solar_utc_para_fecha: the 1-minute instant of the day with
\* the highest solar elevation, as pvlib computes it
mediodia_solar_utc_para_fecha(fecha) == fecha * DAY + solar_noon[fecha]

\* the current filter applied to the windows, before the selection
agregado_filtrado(csv) ==
    LET bins == {floor5(sk_utc(csv, r.t)) : r \in csv.rows}
        grp(b) == SeqOf({r \in csv.rows : floor5(sk_utc(csv, r.t)) = b})
    IN  {[timestamp_bin    |-> b,
          timestamp_center |-> b + HALF_BIN,
          Isce             |-> MeanR(grp(b), "Isce"),
          Iscp             |-> MeanR(grp(b), "Iscp"),
          date             |-> dt_date(b)] :
            b \in {x \in bins : /\ RLe(IntR(1), MeanR(grp(x), "Isce"))
                                /\ RLe(IntR(1), MeanR(grp(x), "Iscp"))}}

\* one row per 5-minute window that has data: mean of the data columns
agregado(csv) ==
    LET bins == {floor5(sk_utc(csv, r.t)) : r \in csv.rows}
        grp(b) == SeqOf({r \in csv.rows : floor5(sk_utc(csv, r.t)) = b})
    IN  {[timestamp_bin    |-> b,
          timestamp_center |-> b + HALF_BIN,
          Isce             |-> MeanR(grp(b), "Isce"),
          Iscp             |-> MeanR(grp(b), "Iscp"),
          date             |-> dt_date(b)] : b \in bins}

\* (sub['timestamp_center'] - mediodia_utc).abs()
dist_a_mediodia(a, mediodia_utc) == Abs(a.timestamp_center - mediodia_utc)

\* idxmax in place of idxmin: the window farthest from solar noon
mejor_idx_idxmax(sub, mediodia_utc) ==
    CHOOSE a \in sub :
        \A b \in sub : Abs(a.timestamp_center - mediodia_utc) >= Abs(b.timestamp_center - mediodia_utc)

\* sub['_dist'].idxmin(): the first row, in window order, of minimal distance
mejor_idx(sub, mediodia_utc) ==
    CHOOSE a \in sub :
        /\ \A b \in sub : dist_a_mediodia(a, mediodia_utc) <= dist_a_mediodia(b, mediodia_utc)
        /\ \A b \in sub : dist_a_mediodia(b, mediodia_utc) = dist_a_mediodia(a, mediodia_utc)
                              => a.timestamp_bin <= b.timestamp_bin

\* total_seconds() / 60.0
dist_min(a, mediodia_utc) == Rat(dist_a_mediodia(a, mediodia_utc), MIN)

\* the loop over sorted(fechas_unicas): the selected window of every day
\* whose nearest window is within MAX_DIST_SOLAR_NOON_MIN
filas_seleccionadas(csv) ==
    LET agg == agregado(csv)
        fechas_unicas == {a.date : a \in agg}
        sub(f) == {a \in agg : a.date = f}
        best(f) == mejor_idx(sub(f), mediodia_solar_utc_para_fecha(f))
        keep == {f \in fechas_unicas :
                    ~RLt(IntR(MAX_DIST_SOLAR_NOON_MIN),
                         dist_min(best(f), mediodia_solar_utc_para_fecha(f)))}
    IN  SortByDate({[timestamp           |-> best(f).timestamp_center,
                     dist_solar_noon_min |-> dist_min(best(f), mediodia_solar_utc_para_fecha(f)),
                     Isce                |-> best(f).Isce,
                     Iscp                |-> best(f).Iscp,
                     date                |-> f] : f \in keep})

UMBRAL_ISC_MIN == 1

\* the current filter on the selected rows, and the columns written
\* every 5-minute window with its means, without the choice of the window
\* nearest to solar noon
out_df_todas_las_ventanas(csv) ==
    LET agg == SeqOf(agregado(csv))
    IN  [i \in 1..Len(agg) |->
            [timestamp           |-> agg[i].timestamp_center,
             dist_solar_noon_min |-> dist_min(agg[i], mediodia_solar_utc_para_fecha(agg[i].date)),
             Isce                |-> agg[i].Isce,
             Iscp                |-> agg[i].Iscp]]
out_df_solar_noon(csv) ==
    LET sel == SelectSeq(filas_seleccionadas(csv),
                         LAMBDA r : RLe(IntR(UMBRAL_ISC_MIN), r.Isce)
                                    /\ RLe(IntR(UMBRAL_ISC_MIN), r.Iscp))
    IN  [i \in 1..Len(sel) |->
            [timestamp           |-> sel[i].timestamp,
             dist_solar_noon_min |-> sel[i].dist_solar_noon_min,
             Isce                |-> sel[i].Isce,
             Iscp                |-> sel[i].Iscp]]

\* The selector returns None, leaving the output file as it was, when no
\* day is selected or none survives the current filter.
SeleccionarMediodiaSolar ==
    /\ soiling_kit_csv.exists
    /\ LET out == out_df_solar_noon(soiling_kit_csv)
       IN  solar_noon_csv' = IF out = <<>> THEN solar_noon_csv
                             ELSE [exists |-> TRUE, rows |-> out]
    /\ UNCHANGED <<soiling_kit_csv, solar_noon, solys2_csv, modulo_csv,
                   align, filas, aligned_csv, sr_csv>>
    /\ UNCHANGED vars_analisis

---------------------------------------------------------------------------
(* analysis/align/align_to_soiling_kit.py *)

UMBRAL_ESTABILIDAD_G == Rat(10, 100)

\* (section, tipo_frecuencia, tz_local) of MODULOS_ALINEAR, in list order
MODULOS_ALINEAR ==
    << [section |-> "pv_glasses",  freq |-> "1min",      tz_local |-> "None"],
       [section |-> "dustiq",      freq |-> "1min",      tz_local |-> "None"],
       [section |-> "temperatura", freq |-> "1min",      tz_local |-> "None"],
       [section |-> "refcells",    freq |-> "1min",      tz_local |-> "None"],
       [section |-> "pvstand",     freq |-> "5min",      tz_local |-> "None"],
       [section |-> "iv600",       freq |-> "irregular", tz_local |-> "America/Santiago"] >>

Sections == {MODULOS_ALINEAR[i].section : i \in 1..Len(MODULOS_ALINEAR)}

\* the columns of a row other than the time column
DataCols(r) == DOMAIN r \ {"t"}

\* sub.rename(columns={tc: "timestamp"}): the row keeps its data columns and
\* its own (UTC) time under the name "timestamp"
rename_tc(r, u) ==
    [c \in DataCols(r) \cup {"timestamp"} |-> IF c = "timestamp" THEN u ELSE r[c]]

\* drop_duplicates("_date"): the first row of every date, in order
drop_duplicates_date(s) ==
    LET keep == {i \in 1..Len(s) : \A j \in 1..(i - 1) : s[j].date # s[i].date}
    IN  {s[i] : i \in keep}

cargar_sesiones_soiling_kit(csv) ==
    LET df == [i \in 1..Len(csv.rows) |->
                 LET center == ensure_utc(csv.rows[i].timestamp, TRUE, 0, "None")
                 IN  [date      |-> dt_date(center),
                      center    |-> center,
                      bin_start |-> floor5(center),
                      bin_end   |-> floor5(center) + BIN_5MIN]]
    IN  SortByDate(drop_duplicates_date(df))

RECURSIVE MaxR(_, _)
MaxR(s, col) == IF Len(s) = 1 THEN s[1][col]
                ELSE LET m == MaxR(Tail(s), col)
                     IN  IF RLt(m, s[1][col]) THEN s[1][col] ELSE m

RECURSIVE MinR(_, _)
MinR(s, col) == IF Len(s) = 1 THEN s[1][col]
                ELSE LET m == MinR(Tail(s), col)
                     IN  IF RLt(s[1][col], m) THEN s[1][col] ELSE m

\* (G_max - G_min) / G_med of the samples of one window
ratio_estabilidad(sub) ==
    RDiv(RSub(MaxR(sub, "POA"), MinR(sub, "POA")), MeanR(sub, "POA"))

\* ratio <= threshold in place of ratio < threshold
es_estable_le(csv, ses) ==
    LET sub == SelectSeq(csv.rows,
                 LAMBDA r : /\ ensure_utc(r.t, csv.aware, csv.off, "None") >= ses.bin_start
                            /\ ensure_utc(r.t, csv.aware, csv.off, "None") < ses.bin_end
                            /\ ~isna(r.POA))
    IN  /\ Len(sub) >= 2
        /\ RLt(IntR(0), MeanR(sub, "POA"))
        /\ RLe(ratio_estabilidad(sub), UMBRAL_ESTABILIDAD_G)

\* the verdict of one session: at least 2 non-null samples in
\* [_bin_start, _bin_end), a positive mean and a ratio below the threshold
es_estable(csv, ses) ==
    LET sub == SelectSeq(csv.rows,
                 LAMBDA r : /\ ensure_utc(r.t, csv.aware, csv.off, "None") >= ses.bin_start
                            /\ ensure_utc(r.t, csv.aware, csv.off, "None") < ses.bin_end
                            /\ ~isna(r.POA))
    IN  /\ Len(sub) >= 2
        /\ RLt(IntR(0), MeanR(sub, "POA"))
        /\ RLt(ratio_estabilidad(sub), UMBRAL_ESTABILIDAD_G)

\* the logger.warning of dias_estables_irradiancia, "None" when it logs none
advertencia_estabilidad(csv) ==
    IF ~csv.exists THEN "No existe el archivo; no se aplica filtro de estabilidad"
    ELSE IF ~csv.has_time THEN "No hay columna de tiempo en Solys2; no se aplica filtro de estabilidad"
    ELSE IF ~csv.has_col THEN "No hay columna POA en Solys2; no se aplica filtro de estabilidad"
    ELSE "None"

\* without the three early returns: every session is put to the test
dias_estables_sin_degradado(csv, sesiones) ==
    {sesiones[i].date : i \in {j \in 1..Len(sesiones) : es_estable(csv, sesiones[j])}}

dias_estables_irradiancia(csv, sesiones) ==
    IF ~csv.exists \/ ~csv.has_time \/ ~csv.has_col
    THEN {sesiones[i].date : i \in 1..Len(sesiones)}
    ELSE {sesiones[i].date : i \in {j \in 1..Len(sesiones) : es_estable(csv, sesiones[j])}}

\* the instrument's time column after pd.to_datetime and _ensure_utc
utc_de(csv, r, tz_local) == ensure_utc(r.t, csv.aware, csv.off, tz_local)

\* <= end in place of < end
en_ventana_cerrada(u, ses) == u >= ses.bin_start /\ u <= ses.bin_end

\* mask = (df[tc] >= start) & (df[tc] < end)
en_ventana(u, ses) == u >= ses.bin_start /\ u < ses.bin_end

\* mean(numeric_only=True): the text column "module" is dropped
numeric_only(r) == DataCols(r) \ {"module"}

\* the window start in place of the centre
timestamp_1min_bin_start(ses) == ses.bin_start

\* agg["timestamp"] = row["_center"]
timestamp_1min(ses) == ses.center

\* one entry of `filas` per session with data in its window: the mean of
\* the numeric columns over the window, stamped with the session centre
alinear_modulo_1min(csv, sesiones) ==
    LET sub(ses) == SelectSeq(csv.rows, LAMBDA r : en_ventana(utc_de(csv, r, "None"), ses))
        agg(ses) == [c \in numeric_only(sub(ses)[1]) \cup {"timestamp"} |->
                        IF c = "timestamp" THEN timestamp_1min(ses) ELSE MeanR(sub(ses), c)]
        con == SelectSeq(sesiones, LAMBDA ses : sub(ses) # <<>>)
    IN  [i \in 1..Len(con) |-> [date |-> con[i].date, rows |-> <<agg(con[i])>>]]

\* >= in place of >
fuera_tolerancia_5min_ge(min_d) == min_d >= TOL_5MIN

\* min_d > pd.Timedelta(minutes=7.5) skips the day
fuera_tolerancia_5min(min_d) == min_d > TOL_5MIN

\* the smallest |df[tc] - center| of a non-empty table
dist_minima(csv, center, tz_local) ==
    LET ds == {Abs(utc_de(csv, csv.rows[i], tz_local) - center) : i \in 1..Len(csv.rows)}
    IN  CHOOSE d \in ds : \A e \in ds : d <= e

\* the rows selected for one session by the 5-minute strategy
sub_5min(csv, ses) ==
    LET bin_target == floor5(ses.center)
        en_bin == SelectSeq(csv.rows, LAMBDA r : floor5(utc_de(csv, r, "None")) = bin_target)
        min_d == dist_minima(csv, ses.center, "None")
        cerca == SelectSeq(csv.rows, LAMBDA r : Abs(utc_de(csv, r, "None") - ses.center) = min_d)
        pick == IF en_bin # <<>> THEN en_bin ELSE cerca
    IN  [i \in 1..Len(pick) |-> rename_tc(pick[i], utc_de(csv, pick[i], "None"))]

\* an empty table has min_d = NaT, which is not > 7.5 min: an empty frame
\* is appended for every session
alinear_modulo_5min(csv, sesiones) ==
    LET salta(ses) ==
            /\ csv.rows # <<>>
            /\ SelectSeq(csv.rows, LAMBDA r : floor5(utc_de(csv, r, "None")) = floor5(ses.center)) = <<>>
            /\ fuera_tolerancia_5min(dist_minima(csv, ses.center, "None"))
        con == SelectSeq(sesiones, LAMBDA ses : ~salta(ses))
    IN  [i \in 1..Len(con) |->
            [date |-> con[i].date,
             rows |-> IF csv.rows = <<>> THEN <<>> ELSE sub_5min(csv, con[i])]]

\* >= in place of >
fuera_max_delta_ge(d) == d >= MAX_DISTANCIA_IRREGULAR_MIN * MIN

\* df.loc[idx, "_dist"] > max_delta skips the day
fuera_max_delta(d) == d > MAX_DISTANCIA_IRREGULAR_MIN * MIN

\* df["_dist"].idxmin(): the first row, in file order, of minimal distance
idxmin_dist(csv, center, tz_local) ==
    CHOOSE i \in 1..Len(csv.rows) :
        /\ Abs(utc_de(csv, csv.rows[i], tz_local) - center) = dist_minima(csv, center, tz_local)
        /\ \A j \in 1..(i - 1) :
              Abs(utc_de(csv, csv.rows[j], tz_local) - center) # dist_minima(csv, center, tz_local)

\* defined for a non-empty table (idxmin of an empty column raises)
alinear_modulo_irregular(csv, sesiones, tz_local) ==
    LET con == SelectSeq(sesiones,
                 LAMBDA ses : ~fuera_max_delta(dist_minima(csv, ses.center, tz_local)))
        fila(ses) == csv.rows[idxmin_dist(csv, ses.center, tz_local)]
    IN  [i \in 1..Len(con) |->
            [date |-> con[i].date,
             rows |-> <<rename_tc(fila(con[i]), utc_de(csv, fila(con[i]), tz_local))>>]]

\* the list `filas` built for one entry of MODULOS_ALINEAR
filas_de(config, csv, sesiones) ==
    IF config.freq = "1min" THEN alinear_modulo_1min(csv, sesiones)
    ELSE IF config.freq = "5min" THEN alinear_modulo_5min(csv, sesiones)
    ELSE alinear_modulo_irregular(csv, sesiones, config.tz_local)

\* pd.concat(filas): the rows of all entries, the column _date dropped
out_df_de(fs) == Concat([i \in 1..Len(fs) |-> fs[i].rows])

\* df[tc] with the configured time_col raises KeyError when the file has no
\* such column, and pd.to_datetime raises on a string that is no timestamp
lanza_tiempo(csv) == csv.exists /\ (~csv.has_time \/ ~csv.parsable)

\* the alinear_* call of one entry raises: the time column, or idxmin of an
\* empty column (ValueError) in the irregular strategy
lanza(config, csv) ==
    \/ lanza_tiempo(csv)
    \/ csv.exists /\ config.freq = "irregular" /\ csv.rows = <<>>

\* the entry of MODULOS_ALINEAR for a section
config_de(section) ==
    MODULOS_ALINEAR[CHOOSE i \in 1..Len(MODULOS_ALINEAR) : MODULOS_ALINEAR[i].section = section]

\* the rows of the Soiling Kit table kept by run_align
sk_df_estable(csv, aplicar_estabilidad, fechas_estables) ==
    IF aplicar_estabilidad /\ fechas_estables # {}
    THEN SelectSeq(csv.rows, LAMBDA r : dt_date(r.timestamp) \in fechas_estables)
    ELSE csv.rows

\* the sessions used for the instruments
sesiones_estables(sesiones, aplicar_estabilidad, fechas_estables) ==
    IF aplicar_estabilidad /\ fechas_estables # {}
    THEN SelectSeq(sesiones, LAMBDA ses : ses.date \in fechas_estables)
    ELSE sesiones

NoFile == [exists |-> FALSE, rows |-> <<>>]

\* run_align: returns False at once when the session table is missing;
\* otherwise writes the Soiling Kit table and the table of every instrument
\* that has a source file and at least one aligned row.  An exception in
\* one instrument leaves the files of the later ones unwritten.
RunAlign(aplicar_estabilidad) ==
    /\ solar_noon_csv.exists
    /\ LET sesiones0 == cargar_sesiones_soiling_kit(solar_noon_csv)
           fechas_estables == dias_estables_irradiancia(solys2_csv, sesiones0)
           sesiones == sesiones_estables(sesiones0, aplicar_estabilidad, fechas_estables)
           N == Len(MODULOS_ALINEAR)
           raises == {i \in 1..N : lanza(MODULOS_ALINEAR[i], modulo_csv[MODULOS_ALINEAR[i].section])}
           reached(sec) == \A i \in raises :
                              i > (CHOOSE k \in 1..N : MODULOS_ALINEAR[k].section = sec)
           fs(sec) == IF modulo_csv[sec].exists /\ reached(sec)
                      THEN filas_de(config_de(sec), modulo_csv[sec], sesiones)
                      ELSE <<>>
       IN  /\ align' = [ran |-> TRUE,
                        aplicar_estabilidad |-> aplicar_estabilidad,
                        sesiones_cargadas |-> sesiones0,
                        fechas_estables |-> fechas_estables,
                        sesiones |-> sesiones,
                        raised |-> raises # {},
                        advertencia |-> advertencia_estabilidad(solys2_csv)]
           /\ filas' = [sec \in Sections |-> fs(sec)]
           /\ aligned_csv' =
                 [sec \in DOMAIN aligned_csv |->
                    IF sec = "soilingkit"
                    THEN [exists |-> TRUE,
                          rows |-> sk_df_estable(solar_noon_csv, aplicar_estabilidad, fechas_estables)]
                    ELSE IF out_df_de(fs(sec)) # <<>>
                         THEN [exists |-> TRUE, rows |-> out_df_de(fs(sec))]
                         ELSE aligned_csv[sec]]
    /\ UNCHANGED <<soiling_kit_csv, solar_noon, solar_noon_csv, solys2_csv, modulo_csv, sr_csv>>
    /\ UNCHANGED vars_analisis

---------------------------------------------------------------------------
(* analysis/sr: calcular_sr.py, calcular_sr_modulos.py,                    *)
(* calcular_sr_pvstand_corr.py, calcular_sr_iv600_corr.py                  *)

UMBRAL_SR_MIN == 80
UMBRAL_PMAX_FALLA_PVSTAND == 10
T_REF_C == 25
ALPHA_ISC == Rat(4, 10000)
BETA_PMAX == Rat(0 - 36, 10000)
TOLERANCIA_MERGE_TEMP_MIN == 15

PVSTAND_MODULO_439_REF == "perc2fixed"
PVSTAND_MODULO_440_SUCIO == "perc1fixed"
IV600_MODULO_REF == "1MD439"
IV600_MODULO_SUCIO == "1MD434"

\* the column names that start with "SR"
SR_COLS == {"SR", "SR_C11_Avg", "SR_FC3", "SR_FC4", "SR_FC5", "SR_Pmax", "SR_Isc",
            "SR_Pmax_434", "SR_Isc_434", "SR_Pmax_corr", "SR_Isc_corr",
            "SR_Pmax_corr_434", "SR_Isc_corr_434"}

\* c in df.columns; a table without rows still has its header
tiene_col(rows, c) == rows = <<>> \/ c \in DOMAIN rows[1]

\* df[name] = v on one row
con_col(r, name, v) == [c \in DOMAIN r \cup {name} |-> IF c = name THEN v ELSE r[c]]

\* df.loc[row, cols] = np.nan
anular(r, cols) == [c \in DOMAIN r |-> IF c \in cols THEN NaN ELSE r[c]]

\* 100.0 * a / b
pct(a, b) == RMul(IntR(100), RDiv(a, b))

\* x < UMBRAL_SR_MIN
es_outlier(x) == RLt(x, IntR(UMBRAL_SR_MIN))

\* a set of rows with pairwise distinct timestamp, in increasing time
RECURSIVE SortByTimestamp(_)
SortByTimestamp(S) ==
    IF S = {} THEN <<>>
    ELSE LET m == CHOOSE x \in S : \A y \in S : x.timestamp <= y.timestamp
         IN  <<m>> \o SortByTimestamp(S \ {m})

\* df[df["module"] == m].drop_duplicates(time_col): the first row, in
\* order, of every timestamp
filas_modulo(rows, m) ==
    LET keep == {i \in 1..Len(rows) :
                    /\ rows[i].module = m
                    /\ \A j \in 1..(i - 1) :
                          ~(rows[j].module = m /\ rows[j].timestamp = rows[i].timestamp)}
    IN  SelectSeq([i \in 1..Len(rows) |-> [k |-> i \in keep, r |-> rows[i]]], LAMBDA x : x.k)

\* the row of a de-duplicated table with a given timestamp, if any
tiene_ts(tab, ts) == \E i \in 1..Len(tab) : tab[i].r.timestamp = ts
fila_ts(tab, ts) == tab[CHOOSE i \in 1..Len(tab) : tab[i].r.timestamp = ts].r

\* sr_soilingkit, and the SR column of calcular_sr
sr_soilingkit(rows) ==
    [i \in 1..Len(rows) |->
        con_col(rows[i], "SR",
                IF GtEps(rows[i].Isce) THEN pct(rows[i].Iscp, rows[i].Isce) ELSE NaN)]

sr_dustiq(rows) ==
    [i \in 1..Len(rows) |-> con_col(rows[i], "SR", rows[i].SR_C11_Avg)]

\* min(axis=1) and max(axis=1) skip NaN
min2(a, b) == IF isna(a) THEN b ELSE IF isna(b) THEN a ELSE IF RLt(b, a) THEN b ELSE a
max2(a, b) == IF isna(a) THEN b ELSE IF isna(b) THEN a ELSE IF RLt(a, b) THEN b ELSE a

sr_refcells(rows) ==
    [i \in 1..Len(rows) |->
        LET mn == min2(rows[i].RC411, rows[i].RC412)
            mx == max2(rows[i].RC411, rows[i].RC412)
        IN  con_col(rows[i], "SR", IF GtEps(mx) THEN pct(mn, mx) ELSE NaN)]

\* f"SR_{c.replace('_Avg', '')}"
col_sr_de(c) == CASE c = "R_FC3_Avg" -> "SR_FC3"
                  [] c = "R_FC4_Avg" -> "SR_FC4"
                  [] c = "R_FC5_Avg" -> "SR_FC5"

\* the dirty cells the table has
available(rows) ==
    SelectSeq(<<"R_FC3_Avg", "R_FC4_Avg", "R_FC5_Avg">>, LAMBDA c : tiene_col(rows, c))

\* SR_FCi = 100 * R_FCi_Avg / REF for the available cells, SR = their mean
\* (NaN skipped)
sr_pv_glasses(rows) ==
    [i \in 1..Len(rows) |->
        LET r == rows[i]
            av == available(rows)
            f(c) == IF GtEps(RAbs(r.REF)) THEN pct(r[c], r.REF) ELSE NaN
            r3 == [c \in DOMAIN r \cup {col_sr_de(av[k]) : k \in 1..Len(av)} |->
                     IF \E k \in 1..Len(av) : c = col_sr_de(av[k])
                     THEN f(av[CHOOSE k \in 1..Len(av) : c = col_sr_de(av[k])])
                     ELSE r[c]]
            v == [k \in 1..Len(av) |-> [x |-> r3[col_sr_de(av[k])]]]
        IN  con_col(r3, "SR", MeanR(v, "x"))]

\* pmax439 >= 10 and pmax440 >= 10
mask_ok(pmax439, pmax440) ==
    /\ RLe(IntR(UMBRAL_PMAX_FALLA_PVSTAND), pmax439)
    /\ RLe(IntR(UMBRAL_PMAX_FALLA_PVSTAND), pmax440)

\* ref.merge(sucio, on=time_col, how="inner"): one row per timestamp that
\* both modules have, in the order of the reference rows; without a column
\* imax, sr_pvstand sets SR_Isc to NaN
merge_pvstand(rows) ==
    LET ref == filas_modulo(rows, PVSTAND_MODULO_439_REF)
        sucio == filas_modulo(rows, PVSTAND_MODULO_440_SUCIO)
        both == SelectSeq(ref, LAMBDA x : tiene_ts(sucio, x.r.timestamp))
        imax_de(r) == IF "imax" \in DOMAIN r THEN r.imax ELSE NaN
    IN  [i \in 1..Len(both) |->
            [timestamp |-> both[i].r.timestamp,
             pmax439 |-> both[i].r.pmax, imax439 |-> imax_de(both[i].r),
             pmax440 |-> fila_ts(sucio, both[i].r.timestamp).pmax,
             imax440 |-> imax_de(fila_ts(sucio, both[i].r.timestamp))]]

sr_pvstand(rows) ==
    LET out == merge_pvstand(rows)
    IN  [i \in 1..Len(out) |->
            LET o == out[i]
                ok == mask_ok(o.pmax439, o.pmax440)
                SR_Pmax == IF ok /\ GtEps(RAbs(o.pmax439)) THEN pct(o.pmax440, o.pmax439) ELSE NaN
                SR_Isc == IF ok /\ GtEps(RAbs(o.imax439)) THEN pct(o.imax440, o.imax439) ELSE NaN
            IN  [timestamp |-> o.timestamp, SR_Pmax |-> SR_Pmax, SR_Isc |-> SR_Isc, SR |-> SR_Pmax]]

\* ref.merge(m434, on=time_col, how="outer"): one row per timestamp that
\* either module has, sorted by timestamp; the missing side is NaN
sr_iv600(rows) ==
    LET df == SelectSeq(rows, LAMBDA r : r.module # "Unknown Module")
        ref == filas_modulo(df, IV600_MODULO_REF)
        m434 == filas_modulo(df, IV600_MODULO_SUCIO)
        tss == {ref[i].r.timestamp : i \in 1..Len(ref)} \cup {m434[i].r.timestamp : i \in 1..Len(m434)}
        val(tab, ts, c) == IF tiene_ts(tab, ts) THEN fila_ts(tab, ts)[c] ELSE NaN
        fila(ts) ==
            LET pmp439 == val(ref, ts, "pmp")
                isc439 == val(ref, ts, "isc")
                pmp434 == val(m434, ts, "pmp")
                isc434 == val(m434, ts, "isc")
                SR_Pmax_434 == IF GtEps(RAbs(pmp439)) THEN pct(pmp434, pmp439) ELSE NaN
                SR_Isc_434 == IF GtEps(RAbs(isc439)) THEN pct(isc434, isc439) ELSE NaN
            IN  [timestamp |-> ts, pmp439 |-> pmp439, isc439 |-> isc439,
                 pmp434 |-> pmp434, isc434 |-> isc434,
                 SR_Pmax_434 |-> SR_Pmax_434, SR_Isc_434 |-> SR_Isc_434, SR |-> SR_Pmax_434]
    IN  SortByTimestamp({fila(ts) : ts \in tss})

\* f"{modulo}_sr.csv"
SrName(modulo) ==
    CASE modulo = "soilingkit" -> "soilingkit_sr"
      [] modulo = "dustiq"     -> "dustiq_sr"
      [] modulo = "refcells"   -> "refcells_sr"
      [] modulo = "pv_glasses" -> "pv_glasses_sr"
      [] modulo = "pvstand"    -> "pvstand_sr"
      [] modulo = "iv600"      -> "iv600_sr"

\* (modulo, func_sr) of MODULOS_SR, in list order
MODULOS_SR == <<"soilingkit", "dustiq", "refcells", "pv_glasses", "pvstand", "iv600">>

func_sr(modulo, rows) ==
    CASE modulo = "soilingkit" -> sr_soilingkit(rows)
      [] modulo = "dustiq"     -> sr_dustiq(rows)
      [] modulo = "refcells"   -> sr_refcells(rows)
      [] modulo = "pv_glasses" -> sr_pv_glasses(rows)
      [] modulo = "pvstand"    -> sr_pvstand(rows)
      [] modulo = "iv600"      -> sr_iv600(rows)

\* func_sr returns None: a column it needs is not in the table
sr_es_none(modulo, rows) ==
    CASE modulo = "soilingkit" -> ~tiene_col(rows, "Isce") \/ ~tiene_col(rows, "Iscp")
      [] modulo = "dustiq"     -> ~tiene_col(rows, "SR_C11_Avg")
      [] modulo = "refcells"   -> ~tiene_col(rows, "RC411") \/ ~tiene_col(rows, "RC412")
      [] modulo = "pv_glasses" -> available(rows) = <<>> \/ ~tiene_col(rows, "REF")
      [] modulo = "pvstand"    -> ~tiene_col(rows, "pmax") \/ ~tiene_col(rows, "module")
      [] modulo = "iv600"      -> \/ ~tiene_col(rows, "pmp")
                                  \/ ~tiene_col(rows, "module")
                                  \/ ~tiene_col(rows, "isc")

\* run_sr_modulos skips the instrument: no file, no time column, or no SR
omite_sr(modulo) ==
    \/ ~aligned_csv[modulo].exists
    \/ ~tiene_col(aligned_csv[modulo].rows, "timestamp")
    \/ sr_es_none(modulo, aligned_csv[modulo].rows)

\* df.loc[df["SR"] < UMBRAL_SR_MIN, sr_cols] = np.nan, sr_cols being every
\* column whose name starts with "SR"
filtro_outliers_modulos(rows) ==
    [i \in 1..Len(rows) |->
        IF es_outlier(rows[i].SR) THEN anular(rows[i], DOMAIN rows[i] \cap SR_COLS)
        ELSE rows[i]]

\* run_sr_modulos: one <modulo>_sr.csv per aligned table that exists and
\* has the columns of its formula
RunSrModulos ==
    /\ \E m \in Range(MODULOS_SR) : aligned_csv[m].exists
    /\ sr_csv' = [n \in DOMAIN sr_csv |->
                    IF \E m \in Range(MODULOS_SR) :
                          n = SrName(m) /\ ~omite_sr(m)
                    THEN LET m == CHOOSE x \in Range(MODULOS_SR) : n = SrName(x)
                         IN  [exists |-> TRUE,
                              rows |-> filtro_outliers_modulos(func_sr(m, aligned_csv[m].rows))]
                    ELSE sr_csv[n]]
    /\ UNCHANGED <<soiling_kit_csv, solar_noon, solar_noon_csv, solys2_csv, modulo_csv,
                   align, filas, aligned_csv>>
    /\ UNCHANGED vars_analisis

\* calcular_sr: SR of the solar-noon table, the current filter, the outlier
\* filter on the column SR; returns None without writing when the file is
\* missing, lacks a current column, or no row passes the current filter
filtro_corriente_sr(rows) ==
    SelectSeq(sr_soilingkit(rows), LAMBDA r : RLe(IntR(UMBRAL_ISC_MIN), r.Isce)
                                              /\ RLe(IntR(UMBRAL_ISC_MIN), r.Iscp))

calcular_sr_df(rows) ==
    LET df == filtro_corriente_sr(rows)
    IN  [i \in 1..Len(df) |->
            IF es_outlier(df[i].SR) THEN anular(df[i], {"SR"}) ELSE df[i]]

CalcularSr ==
    /\ solar_noon_csv.exists
    /\ tiene_col(solar_noon_csv.rows, "Isce")
    /\ tiene_col(solar_noon_csv.rows, "Iscp")
    /\ calcular_sr_df(solar_noon_csv.rows) # <<>>
    /\ sr_csv' = [sr_csv EXCEPT !["soilingkit_sr"] =
                     [exists |-> TRUE, rows |-> calcular_sr_df(solar_noon_csv.rows)]]
    /\ UNCHANGED <<soiling_kit_csv, solar_noon, solar_noon_csv, solys2_csv, modulo_csv,
                   align, filas, aligned_csv>>
    /\ UNCHANGED vars_analisis

\* pd.merge_asof(..., direction="nearest", tolerance=15 min): the index of
\* the temperature row joined to time ts, 0 if none.  The backward match
\* is the last row at or before ts, the forward match the first row at or
\* after ts, each within the tolerance; the backward one wins a tie.
merge_asof_idx(temp, ts) ==
    LET tol == TOLERANCIA_MERGE_TEMP_MIN * MIN
        B == {i \in 1..Len(temp) : temp[i].timestamp <= ts /\ ts - temp[i].timestamp <= tol}
        F == {i \in 1..Len(temp) : temp[i].timestamp >= ts /\ temp[i].timestamp - ts <= tol}
        b == CHOOSE i \in B : \A j \in B : temp[j].timestamp <= temp[i].timestamp
        f == CHOOSE i \in F : \A j \in F : temp[j].timestamp >= temp[i].timestamp
    IN  IF B = {} /\ F = {} THEN 0
        ELSE IF F = {} THEN b
        ELSE IF B = {} THEN f
        ELSE IF ts - temp[b].timestamp <= temp[f].timestamp - ts THEN b ELSE f

\* the temperature column c joined to time ts, NaN without a match
T_asof(temp, ts, c) ==
    IF merge_asof_idx(temp, ts) = 0 THEN NaN ELSE temp[merge_asof_idx(temp, ts)][c]

\* value / (1 + coeff * (T - 25))
corr_T(value, coeff, T) ==
    RDiv(value, RAdd(IntR(1), RMul(coeff, RSub(T, IntR(T_REF_C)))))

\* for col_sr in sr_cols: if any row has col_sr < 80, null sr_cols on those
\* rows and break
filtro_outliers_break(rows, sr_cols) ==
    LET con == {k \in 1..Len(sr_cols) : \E i \in 1..Len(rows) : es_outlier(rows[i][sr_cols[k]])}
        k0 == CHOOSE k \in con : \A j \in con : k <= j
    IN  IF con = {} THEN rows
        ELSE [i \in 1..Len(rows) |->
                IF es_outlier(rows[i][sr_cols[k0]]) THEN anular(rows[i], Range(sr_cols))
                ELSE rows[i]]

\* the table before the outlier filter: columns of cols_out
pvstand_corr_df(rows, temp) ==
    LET out == SortByTimestamp(Range(merge_pvstand(rows)))
    IN  [i \in 1..Len(out) |->
            LET o == out[i]
                T439 == T_asof(temp, o.timestamp, "TE418")
                T440 == T_asof(temp, o.timestamp, "TE416")
                ok == mask_ok(o.pmax439, o.pmax440)
                pmax439_corr == corr_T(o.pmax439, BETA_PMAX, T439)
                pmax440_corr == corr_T(o.pmax440, BETA_PMAX, T440)
                imax439_corr == corr_T(o.imax439, ALPHA_ISC, T439)
                imax440_corr == corr_T(o.imax440, ALPHA_ISC, T440)
            IN  [timestamp |-> o.timestamp,
                 SR_Pmax |-> IF ok /\ GtEps(RAbs(o.pmax439)) THEN pct(o.pmax440, o.pmax439) ELSE NaN,
                 SR_Isc  |-> IF ok /\ GtEps(RAbs(o.imax439)) THEN pct(o.imax440, o.imax439) ELSE NaN,
                 SR_Pmax_corr |-> IF ok /\ GtEps(RAbs(pmax439_corr))
                                  THEN pct(pmax440_corr, pmax439_corr) ELSE NaN,
                 SR_Isc_corr  |-> IF ok /\ GtEps(RAbs(imax439_corr))
                                  THEN pct(imax440_corr, imax439_corr) ELSE NaN,
                 T439 |-> T439, T440 |-> T440]]

\* the temperature table lacks a channel: the stage logs and returns None
sin_canal_T(temp) == ~tiene_col(temp, "TE416") \/ ~tiene_col(temp, "TE418")

\* df[time_col] of either table, then (past the temperature check) the
\* unchecked df["module"] and [[time_col, a, b]] raise KeyError
lanza_corr(rows, temp, a, b) ==
    \/ ~tiene_col(rows, "timestamp")
    \/ ~tiene_col(temp, "timestamp")
    \/ /\ ~sin_canal_T(temp)
       /\ ~tiene_col(rows, "module") \/ ~tiene_col(rows, a) \/ ~tiene_col(rows, b)

\* run_pvstand_sr_corr: returns None without writing when either aligned
\* table is missing or the temperature table lacks a channel
RunPvstandSrCorr ==
    /\ aligned_csv["pvstand"].exists
    /\ aligned_csv["temperatura"].exists
    /\ LET rows == aligned_csv["pvstand"].rows
           temp == aligned_csv["temperatura"].rows
       IN  IF lanza_corr(rows, temp, "pmax", "imax")
           THEN /\ excepciones' = excepciones \cup {"run_pvstand_sr_corr"}
                /\ UNCHANGED sr_csv
           ELSE /\ excepciones' = excepciones \ {"run_pvstand_sr_corr"}
                /\ sr_csv' =
                      IF sin_canal_T(temp) THEN sr_csv
                      ELSE [sr_csv EXCEPT !["pvstand_sr_corr"] =
                              [exists |-> TRUE,
                               rows |-> filtro_outliers_break(
                                           pvstand_corr_df(rows, temp),
                                           <<"SR_Pmax", "SR_Isc", "SR_Pmax_corr", "SR_Isc_corr">>)]]
    /\ UNCHANGED <<soiling_kit_csv, solar_noon, solar_noon_csv, solys2_csv, modulo_csv,
                   align, filas, aligned_csv, agregacion, stats_csv, sr_semanal_norm,
                   correlacion, anova>>

\* the table before the outlier filter: every row gets the temperature of
\* its module and is corrected; then reference and 1MD434 are joined (outer)
iv600_corr_df(rows, temp) ==
    LET df0 == SelectSeq(rows, LAMBDA r : r.module # "Unknown Module")
        df == [i \in 1..Len(df0) |->
                 LET r == df0[i]
                     T_mod == IF r.module = IV600_MODULO_REF
                              THEN T_asof(temp, r.timestamp, "TE418")
                              ELSE T_asof(temp, r.timestamp, "TE416")
                 IN  [timestamp |-> r.timestamp, module |-> r.module,
                      pmp_corr |-> corr_T(r.pmp, BETA_PMAX, T_mod),
                      isc_corr |-> corr_T(r.isc, ALPHA_ISC, T_mod)]]
        ref == filas_modulo(df, IV600_MODULO_REF)
        m434 == filas_modulo(df, IV600_MODULO_SUCIO)
        tss == {ref[i].r.timestamp : i \in 1..Len(ref)} \cup {m434[i].r.timestamp : i \in 1..Len(m434)}
        val(tab, ts, c) == IF tiene_ts(tab, ts) THEN fila_ts(tab, ts)[c] ELSE NaN
        fila(ts) ==
            [timestamp |-> ts,
             SR_Pmax_corr_434 |-> IF GtEps(RAbs(val(ref, ts, "pmp_corr")))
                                  THEN pct(val(m434, ts, "pmp_corr"), val(ref, ts, "pmp_corr"))
                                  ELSE NaN,
             SR_Isc_corr_434  |-> IF GtEps(RAbs(val(ref, ts, "isc_corr")))
                                  THEN pct(val(m434, ts, "isc_corr"), val(ref, ts, "isc_corr"))
                                  ELSE NaN]
    IN  SortByTimestamp({fila(ts) : ts \in tss})

\* run_iv600_sr_corr: as run_pvstand_sr_corr, with the columns pmp and isc
RunIv600SrCorr ==
    /\ aligned_csv["iv600"].exists
    /\ aligned_csv["temperatura"].exists
    /\ LET rows == aligned_csv["iv600"].rows
           temp == aligned_csv["temperatura"].rows
       IN  IF lanza_corr(rows, temp, "pmp", "isc")
           THEN /\ excepciones' = excepciones \cup {"run_iv600_sr_corr"}
                /\ UNCHANGED sr_csv
           ELSE /\ excepciones' = excepciones \ {"run_iv600_sr_corr"}
                /\ sr_csv' =
                      IF sin_canal_T(temp) THEN sr_csv
                      ELSE [sr_csv EXCEPT !["iv600_sr_corr"] =
                              [exists |-> TRUE,
                               rows |-> filtro_outliers_break(
                                           iv600_corr_df(rows, temp),
                                           <<"SR_Pmax_corr_434", "SR_Isc_corr_434">>)]]
    /\ UNCHANGED <<soiling_kit_csv, solar_noon, solar_noon_csv, solys2_csv, modulo_csv,
                   align, filas, aligned_csv, agregacion, stats_csv, sr_semanal_norm,
                   correlacion, anova>>

---------------------------------------------------------------------------
(* analysis/stats/agregacion_semanal.py *)

\* (nombre_display, ruta_csv, columna_SR) of _build_config, in list order
build_config ==
    << [nombre |-> "Soiling Kit",  archivo |-> "soilingkit_sr",   col_sr |-> "SR"],
       [nombre |-> "DustIQ",       archivo |-> "dustiq_sr",       col_sr |-> "SR"],
       [nombre |-> "RefCells",     archivo |-> "refcells_sr",     col_sr |-> "SR"],
       [nombre |-> "PVStand",      archivo |-> "pvstand_sr",      col_sr |-> "SR_Pmax"],
       [nombre |-> "PVStand corr", archivo |-> "pvstand_sr_corr", col_sr |-> "SR_Pmax_corr"],
       [nombre |-> "IV600",        archivo |-> "iv600_sr",        col_sr |-> "SR_Pmax_434"],
       [nombre |-> "IV600 corr",   archivo |-> "iv600_sr_corr",   col_sr |-> "SR_Pmax_corr_434"] >>

\* the columns of a table (of its first row; a table without rows has none
\* that matter)
columnas(rows) == IF rows = <<>> THEN {} ELSE DOMAIN rows[1]

\* without df = df[df[col_sr] >= 80.0]
cargar_sr_diario_sin_umbral(csv, col_sr) ==
    IF ~csv.exists \/ col_sr \notin columnas(csv.rows) THEN <<>>
    ELSE LET df == SelectSeq(csv.rows, LAMBDA r : ~isna(r[col_sr]))
             keep == {i \in 1..Len(df) :
                        \A j \in 1..(i - 1) : dt_date(df[j].timestamp) # dt_date(df[i].timestamp)}
             uno == SelectSeq([i \in 1..Len(df) |-> [k |-> i \in keep, r |-> df[i]]],
                              LAMBDA x : x.k)
         IN  [i \in 1..Len(uno) |->
                [fecha |-> dt_date(uno[i].r.timestamp), valor |-> uno[i].r[col_sr]]]

\* cargar_sr_diario: the daily series [fecha, valor] in file order, nulls
\* and values below 80 dropped, the first row of each UTC date kept; the
\* empty series also stands for None (missing file or column)
cargar_sr_diario(csv, col_sr) ==
    IF ~csv.exists \/ col_sr \notin columnas(csv.rows) THEN <<>>
    ELSE LET df == SelectSeq(csv.rows,
                             LAMBDA r : ~isna(r[col_sr]) /\ RLe(IntR(UMBRAL_SR_MIN), r[col_sr]))
             keep == {i \in 1..Len(df) :
                        \A j \in 1..(i - 1) : dt_date(df[j].timestamp) # dt_date(df[i].timestamp)}
             uno == SelectSeq([i \in 1..Len(df) |-> [k |-> i \in keep, r |-> df[i]]],
                              LAMBDA x : x.k)
         IN  [i \in 1..Len(uno) |->
                [fecha |-> dt_date(uno[i].r.timestamp), valor |-> uno[i].r[col_sr]]]

\* day of the week of a date counted from 1970-01-01, a Thursday (Monday = 0)
weekday(d) == (d + 3) % 7

\* resample("W-MON", label="left", closed="left"): the first bin edge is the
\* first date rolled back to a Monday, edges follow every 7 days, a date
\* belongs to the bin [edge, edge + 7) and the bin is labelled by its edge
primer_borde(serie) ==
    LET d0 == CHOOSE d \in {serie[i].fecha : i \in 1..Len(serie)} :
                 \A i \in 1..Len(serie) : d <= serie[i].fecha
    IN  d0 - weekday(d0)

\* closed="right": a date on the edge belongs to the bin before it
semana_de_closed_right(serie, d) ==
    LET borde == primer_borde(serie)
    IN  borde + 7 * ((d - borde + 6) \div 7) - 7

semana_de(serie, d) ==
    LET borde == primer_borde(serie)
    IN  borde + 7 * ((d - borde) \div 7)

\* the values of a sequence of rationals in increasing order
RECURSIVE SortVals(_)
SortVals(vs) ==
    IF vs = <<>> THEN <<>>
    ELSE LET k == CHOOSE i \in 1..Len(vs) : \A j \in 1..Len(vs) : RLe(vs[i], vs[j])
         IN  <<vs[k]>> \o SortVals(SubSeq(vs, 1, k - 1) \o SubSeq(vs, k + 1, Len(vs)))

\* Series.quantile(q) with q = qn/qd, linear interpolation between the two
\* order statistics around position (n - 1) * q; NaN for no values
quantile(vs, qn, qd) ==
    IF vs = <<>> THEN NaN
    ELSE LET v == SortVals(vs)
             h == ((Len(v) - 1) * qn) \div qd
             rem == ((Len(v) - 1) * qn) % qd
         IN  IF rem = 0 THEN v[h + 1]
             ELSE RAdd(v[h + 1], RMul(Rat(rem, qd), RSub(v[h + 2], v[h + 1])))

mean_vals(vs) == MeanR([i \in 1..Len(vs) |-> [x |-> vs[i]]], "x")

\* Series.std() (ddof = 1), kept as its square, the sample variance; NaN
\* for fewer than 2 values
std_vals(vs) ==
    IF Len(vs) < 2 THEN NaN
    ELSE LET m == mean_vals(vs)
             sq == [i \in 1..Len(vs) |-> [x |-> RMul(RSub(vs[i], m), RSub(vs[i], m))]]
         IN  RDiv(SumR(sq, "x"), IntR(Len(vs) - 1))

\* the values of the daily series that fall in the bin labelled w
valores_semana(serie, w) ==
    LET sub == SelectSeq(serie, LAMBDA x : semana_de(serie, x.fecha) = w)
    IN  [i \in 1..Len(sub) |-> sub[i].valor]

\* the labels of the bins that have a value, in increasing order
RECURSIVE SortInts(_)
SortInts(S) ==
    IF S = {} THEN <<>>
    ELSE LET m == CHOOSE x \in S : \A y \in S : x <= y
         IN  <<m>> \o SortInts(S \ {m})

semanas_con_dato(serie) == SortInts({semana_de(serie, serie[i].fecha) : i \in 1..Len(serie)})

\* agregar_semanal_q25: rows [semana, sr_q25] of the bins that have a value
agregar_semanal_q25(serie) ==
    LET ws == semanas_con_dato(serie)
    IN  [k \in 1..Len(ws) |->
            [semana |-> ws[k], sr_q25 |-> quantile(valores_semana(serie, ws[k]), 1, 4)]]

\* agregar_semanal_q25_y_std: rows [semana, sr_q25, std, n] of the same bins
agregar_semanal_q25_y_std(serie) ==
    LET ws == semanas_con_dato(serie)
    IN  [k \in 1..Len(ws) |->
            LET vs == valores_semana(serie, ws[k])
            IN  [semana |-> ws[k], sr_q25 |-> quantile(vs, 1, 4),
                 std |-> std_vals(vs), n |-> Len(vs)]]

\* dispersion_entre_semanas returns None for fewer than 2 weeks
dispersion_es_none(semanal) == Len(semanal) < 2

dispersion_entre_semanas(semanal, nombre) ==
    LET vals == [i \in 1..Len(semanal) |-> semanal[i].sr_q25]
    IN  [instrumento |-> nombre,
         n_semanas |-> Len(vals),
         mean |-> mean_vals(vals),
         std  |-> std_vals(vals),
         min  |-> SortVals(vals)[1],
         p50  |-> quantile(vals, 1, 2),
         max  |-> SortVals(vals)[Len(vals)]]

\* the daily series of the k-th entry of the configuration
serie_diaria(k) == cargar_sr_diario(sr_csv[build_config[k].archivo], build_config[k].col_sr)

\* the entries the loop of run does not skip: those with a daily value
con_datos == SelectSeq([k \in 1..Len(build_config) |-> k], LAMBDA k : serie_diaria(k) # <<>>)

\* run logs disp["n_semanas"] for every instrument, also when disp is None:
\* the positions (in con_datos) at which that raises TypeError
sin_dispersion ==
    LET cd == con_datos
    IN  {i \in 1..Len(cd) : dispersion_es_none(agregar_semanal_q25(serie_diaria(cd[i])))}

\* the entries handled before the loop ends or an exception leaves it
procesados ==
    LET sd == sin_dispersion
    IN  IF sd = {} THEN con_datos
        ELSE SubSeq(con_datos, 1, CHOOSE i \in sd : \A j \in sd : i <= j)

\* sr_semanal_q25_largo.csv: a row [semana, instrumento, sr_q25] per
\* instrument and week
largo_rows(series_semanales) ==
    Concat([i \in 1..Len(series_semanales) |->
              [j \in 1..Len(series_semanales[i].semanal) |->
                  [semana |-> series_semanales[i].semanal[j].semana,
                   instrumento |-> series_semanales[i].nombre,
                   sr_q25 |-> series_semanales[i].semanal[j].sr_q25]]])

\* agregacion_semanal.run: the weekly series of every instrument with data,
\* then the tables; an exception in the loop leaves the tables unwritten,
\* and without any series run returns False before writing
RunAgregacionSemanal ==
    LET proc == procesados
        raises == sin_dispersion # {}
        datos_con_std ==
            [i \in 1..Len(proc) |->
                [nombre |-> build_config[proc[i]].nombre,
                 semanal |-> agregar_semanal_q25_y_std(serie_diaria(proc[i]))]]
        series_semanales ==
            [i \in 1..Len(proc) |->
                [nombre |-> build_config[proc[i]].nombre,
                 semanal |-> agregar_semanal_q25(serie_diaria(proc[i]))]]
        con_disp == SelectSeq(series_semanales, LAMBDA x : ~dispersion_es_none(x.semanal))
        disp_rows == [i \in 1..Len(con_disp) |->
                         dispersion_entre_semanas(con_disp[i].semanal, con_disp[i].nombre)]
    IN  /\ agregacion' = [ran |-> TRUE, series_semanales |-> series_semanales,
                          datos_con_std |-> datos_con_std, disp_rows |-> disp_rows]
        /\ excepciones' = IF raises
                          THEN excepciones \cup {"agregacion_semanal.run"}
                          ELSE excepciones \ {"agregacion_semanal.run"}
        /\ stats_csv' =
              IF raises \/ series_semanales = <<>> THEN stats_csv
              ELSE [stats_csv EXCEPT
                       !["sr_semanal_q25_largo"] = [exists |-> TRUE, rows |-> largo_rows(series_semanales)],
                       !["dispersion_semanal"] = [exists |-> TRUE, rows |-> disp_rows]]
        /\ UNCHANGED <<soiling_kit_csv, solar_noon, solar_noon_csv, solys2_csv, modulo_csv,
                       align, filas, aligned_csv, sr_csv, sr_semanal_norm, correlacion, anova>>

---------------------------------------------------------------------------
(* analysis/stats/analisis_estadistico.py *)

\* _numeric_columns: the numeric columns that are not time columns, in order
numeric_columns(rows) == IF rows = <<>> THEN <<>> ELSE SeqOf(numeric_only(rows[1]))

\* `if pd.isna(std_v) or n < 2: std_v = 0.0`; std kept as its square
std_ventana(vals) == IF isna(std_vals(vals)) \/ Len(vals) < 2 THEN IntR(0) ELSE std_vals(vals)

\* the row of one session and one column
fila_ventana(ses, col, vals) ==
    [fecha |-> ses.date, variable |-> col, n |-> Len(vals),
     mean |-> mean_vals(vals), std |-> std_ventana(vals),
     min |-> MinR([i \in 1..Len(vals) |-> [x |-> vals[i]]], "x"),
     max |-> MaxR([i \in 1..Len(vals) |-> [x |-> vals[i]]], "x")]

\* stats_dentro_ventana: per session and numeric column, the statistics of
\* the non-null values inside the session window ([] also stands for None)
stats_dentro_ventana(csv, sesiones, tz_local) ==
    LET cols_num == numeric_columns(csv.rows)
        sub(ses) == SelectSeq(csv.rows, LAMBDA r : en_ventana(utc_de(csv, r, tz_local), ses))
        vals(ses, col) == LET ok == SelectSeq(sub(ses), LAMBDA r : ~isna(r[col]))
                          IN  [i \in 1..Len(ok) |-> ok[i][col]]
        de_sesion(ses) ==
            LET cols == SelectSeq(cols_num, LAMBDA col : vals(ses, col) # <<>>)
            IN  [k \in 1..Len(cols) |-> fila_ventana(ses, cols[k], vals(ses, cols[k]))]
    IN  Concat([i \in 1..Len(sesiones) |-> de_sesion(sesiones[i])])

\* the entries of MODULOS_ALINEAR sampled every minute
modulos_1min == SelectSeq(MODULOS_ALINEAR, LAMBDA m : m.freq = "1min")

\* run_analisis: the sessions (of the stable days when asked), then for
\* every 1-minute instrument with a file the per-day table of
\* resultados_ventana, kept here with a column `modulo`; the time column of
\* a file is read as in the alignment and raises in the same cases.  The between-day
\* summaries and the report are computed from it and from the aligned
\* tables and are not part of the state.
RunAnalisis(usar_solo_dias_estables) ==
    /\ solar_noon_csv.exists
    /\ LET sesiones0 == cargar_sesiones_soiling_kit(solar_noon_csv)
           fechas_estables == dias_estables_irradiancia(solys2_csv, sesiones0)
           sesiones == IF usar_solo_dias_estables
                       THEN SelectSeq(sesiones0, LAMBDA ses : ses.date \in fechas_estables)
                       ELSE sesiones0
           por_dia(m) == IF modulo_csv[m.section].exists
                         THEN stats_dentro_ventana(modulo_csv[m.section], sesiones, m.tz_local)
                         ELSE <<>>
           con_modulo(m) == [i \in 1..Len(por_dia(m)) |->
                               [c \in DOMAIN por_dia(m)[i] \cup {"modulo"} |->
                                  IF c = "modulo" THEN m.section ELSE por_dia(m)[i][c]]]
           raises == \E k \in 1..Len(modulos_1min) :
                        lanza_tiempo(modulo_csv[modulos_1min[k].section])
       IN  IF raises
           THEN /\ excepciones' = excepciones \cup {"analisis_estadistico.run_analisis"}
                /\ UNCHANGED stats_csv
           ELSE /\ excepciones' = excepciones \ {"analisis_estadistico.run_analisis"}
                /\ stats_csv' = [stats_csv EXCEPT !["ventana_por_dia"] =
                                    [exists |-> TRUE,
                                     rows |-> Concat([k \in 1..Len(modulos_1min) |->
                                                        con_modulo(modulos_1min[k])])]]
    /\ UNCHANGED <<soiling_kit_csv, solar_noon, solar_noon_csv, solys2_csv, modulo_csv,
                   align, filas, aligned_csv, sr_csv, agregacion,
                   sr_semanal_norm, correlacion, anova>>

---------------------------------------------------------------------------
(* analysis/correlacion/correlacion_cruzada.py *)

\* pairs with fewer paired weeks than this are skipped
MIN_SEMANAS_PAR == 4

\* itertools.combinations(instrumentos, 2), in order
combinations2(cols) ==
    LET n == Len(cols)
        idx == SelectSeq(Concat([i \in 1..n |-> [j \in 1..n |-> <<i, j>>]]),
                         LAMBDA q : q[1] < q[2])
    IN  [k \in 1..Len(idx) |-> <<cols[idx[k][1]], cols[idx[k][2]]>>]

\* df[[a, b]].dropna(): the weeks in which both instruments have a value
sub_dropna(rows, a, b) == SelectSeq(rows, LAMBDA r : ~isna(r[a]) /\ ~isna(r[b]))

columna(rows, c) == [i \in 1..Len(rows) |-> rows[i][c]]

\* sum of (x - mean x)(y - mean y)
suma_prod(xs, ys) ==
    LET mx == mean_vals(xs)
        my == mean_vals(ys)
    IN  SumR([i \in 1..Len(xs) |-> [x |-> RMul(RSub(xs[i], mx), RSub(ys[i], my))]], "x")

\* scipy.stats.pearsonr: r = sxy / sqrt(sxx * syy), kept as r * |r| (the
\* signed square, which orders like r); NaN for a constant input.  The
\* rounding to 4 decimals is not modelled.
pearsonr(xs, ys) ==
    LET sxy == suma_prod(xs, ys)
        sxx == suma_prod(xs, xs)
        syy == suma_prod(ys, ys)
        r2 == RDiv(RMul(sxy, sxy), RMul(sxx, syy))
    IN  IF isna(r2) THEN NaN
        ELSE IF RLt(sxy, IntR(0)) THEN RSub(IntR(0), r2) ELSE r2

\* the entry of one pair: n, r, bias = mean(A - B), RMSE (kept as its
\* square, the mean of (A - B)^2)
par_row(rows, a, b) ==
    LET sub == sub_dropna(rows, a, b)
        diff == [i \in 1..Len(sub) |-> RSub(sub[i][a], sub[i][b])]
    IN  [instrumento_A |-> a, instrumento_B |-> b, n_semanas |-> Len(sub),
         r_pearson |-> pearsonr(columna(sub, a), columna(sub, b)),
         bias_pp |-> mean_vals(diff),
         rmse_pp |-> mean_vals([i \in 1..Len(diff) |-> RMul(diff[i], diff[i])])]

\* `if n < 4: continue`
par_omitido(rows, a, b) == Len(sub_dropna(rows, a, b)) < MIN_SEMANAS_PAR

\* the list `rows` of calcular_pares, before the DataFrame is built
pares_rows(df) ==
    LET cs == SelectSeq(combinations2(df.cols), LAMBDA q : ~par_omitido(df.rows, q[1], q[2]))
    IN  [k \in 1..Len(cs) |-> par_row(df.rows, cs[k][1], cs[k][2])]

\* sort_values("r_pearson", ascending=False): NaN last
ordenado_por_r(t) ==
    \A i \in 1..Len(t) : \A j \in (i + 1)..Len(t) :
        \/ isna(t[j].r_pearson)
        \/ RLe(t[j].r_pearson, t[i].r_pearson)

\* matriz_correlacion: r and n per ordered pair of instruments
mat_r_de(df) ==
    [q \in Range(df.cols) \X Range(df.cols) |->
        IF q[1] = q[2] THEN IntR(1)
        ELSE IF par_omitido(df.rows, q[1], q[2]) THEN NaN
        ELSE par_row(df.rows, q[1], q[2]).r_pearson]

mat_n_de(df) ==
    [q \in Range(df.cols) \X Range(df.cols) |->
        IF q[1] = q[2] THEN Len(SelectSeq(df.rows, LAMBDA r : ~isna(r[q[1]])))
        ELSE IF par_omitido(df.rows, q[1], q[2]) THEN 0
        ELSE Len(sub_dropna(df.rows, q[1], q[2]))]

\* correlacion_cruzada.run: the matrices, then calcular_pares, then the
\* tables.  Without any qualifying pair pd.DataFrame([]) has no column
\* r_pearson and sort_values raises KeyError before anything is written.
RunCorrelacion ==
    /\ sr_semanal_norm.exists
    /\ LET rows == pares_rows(sr_semanal_norm)
       IN  IF rows = <<>>
           THEN /\ correlacion' = [ran |-> TRUE, escrito |-> FALSE, pares |-> <<>>,
                                   mat_r |-> mat_r_de(sr_semanal_norm),
                                   mat_n |-> mat_n_de(sr_semanal_norm)]
                /\ excepciones' = excepciones \cup {"correlacion_cruzada.run"}
           ELSE /\ \E perm \in Permutations(1..Len(rows)) :
                     /\ ordenado_por_r([i \in 1..Len(rows) |-> rows[perm[i]]])
                     /\ correlacion' = [ran |-> TRUE, escrito |-> TRUE,
                                        pares |-> [i \in 1..Len(rows) |-> rows[perm[i]]],
                                        mat_r |-> mat_r_de(sr_semanal_norm),
                                        mat_n |-> mat_n_de(sr_semanal_norm)]
                /\ excepciones' = excepciones \ {"correlacion_cruzada.run"}
    /\ UNCHANGED <<soiling_kit_csv, solar_noon, solar_noon_csv, solys2_csv, modulo_csv,
                   align, filas, aligned_csv, sr_csv, agregacion, stats_csv,
                   sr_semanal_norm, anova>>

---------------------------------------------------------------------------
(* analysis/anova/anova_sr.py *)

\* groups with fewer observations than this get no Shapiro-Wilk test
MIN_OBS_SHAPIRO == 3

\* sr_semanal_norm_largo.csv holds the normalised weekly table as rows
\* (semana, instrumento, sr_norm); cargar_datos drops the rows without sr_norm
cargar_datos(df) ==
    LET celdas == Concat([i \in 1..Len(df.rows) |->
                     [k \in 1..Len(df.cols) |->
                        [semana |-> df.rows[i].semana, instrumento |-> df.cols[k],
                         sr_norm |-> df.rows[i][df.cols[k]]]]])
    IN  SelectSeq(celdas, LAMBDA r : ~isna(r.sr_norm))

instrumentos_de(rows) == {rows[i].instrumento : i \in 1..Len(rows)}

\* the weeks in which at least two instruments have a value
hacer_interseccion_dos(rows) ==
    LET conteo(w) == Cardinality({rows[i].instrumento :
                                    i \in {j \in 1..Len(rows) : rows[j].semana = w}})
    IN  SelectSeq(rows, LAMBDA r : conteo(r.semana) >= 2)

\* the weeks in which every instrument of the table has a value
hacer_interseccion(rows) ==
    LET conteo(w) == Cardinality({rows[i].instrumento :
                                    i \in {j \in 1..Len(rows) : rows[j].semana = w}})
    IN  SelectSeq(rows, LAMBDA r : conteo(r.semana) = Cardinality(instrumentos_de(rows)))

grupo(rows, inst) == SelectSeq(rows, LAMBDA r : r.instrumento = inst)

\* the groups on which stats.shapiro is called
grupos_con_shapiro(rows) ==
    {inst \in instrumentos_de(rows) : Len(grupo(rows, inst)) >= MIN_OBS_SHAPIRO}

\* test_normalidad: one row per group.  W and p of a tested group are the
\* library's numbers ("valor"); normal[inst] is the outcome of p >= ALPHA.
test_normalidad(rows, normal) ==
    [inst \in instrumentos_de(rows) |->
        IF Len(grupo(rows, inst)) < MIN_OBS_SHAPIRO
        THEN [n |-> Len(grupo(rows, inst)), shapiro_W |-> "nan", shapiro_p |-> "nan",
              normal_alpha05 |-> "nan"]
        ELSE [n |-> Len(grupo(rows, inst)), shapiro_W |-> "valor", shapiro_p |-> "valor",
              normal_alpha05 |-> IF normal[inst] THEN "True" ELSE "False"]]

\* truth value of a cell in a Python condition: NaN is a non-zero float
truthy(v) == v # "False"

\* generar_reporte, the normality table of one view: W and p formatted with
\* :.4f (NaN prints as "nan"), the verdict as a check mark or a cross
reporte_normalidad(norm) ==
    [inst \in DOMAIN norm |->
        [n |-> norm[inst].n, W |-> norm[inst].shapiro_W, p |-> norm[inst].shapiro_p,
         ok |-> IF truthy(norm[inst].normal_alpha05) THEN "check" ELSE "cross"]]

Conjuntos == {"Pool completo", "Interseccion"}

conjuntos_data(df) ==
    [c \in Conjuntos |->
        IF c = "Pool completo" THEN cargar_datos(df) ELSE hacer_interseccion(cargar_datos(df))]

\* anova_sr.run: the tests on both views, then the report.  The outcomes of
\* Shapiro-Wilk are the library's; Levene, ANOVA, Kruskal-Wallis and the
\* post-hoc tests need at least two groups in each view and their sections
\* of the report are not part of the state.  The library's outcome is a
\* function of the data, so it is chosen once per table.
RunAnova ==
    /\ sr_semanal_norm.exists
    /\ ~anova.ran
    /\ LET datos == conjuntos_data(sr_semanal_norm)
       IN  /\ \A c \in Conjuntos : Cardinality(instrumentos_de(datos[c])) >= 2
           /\ \E nP \in [grupos_con_shapiro(datos["Pool completo"]) -> BOOLEAN],
                  nI \in [grupos_con_shapiro(datos["Interseccion"]) -> BOOLEAN] :
                 LET norm == [c \in Conjuntos |->
                                test_normalidad(datos[c],
                                                IF c = "Pool completo" THEN nP ELSE nI)]
                 IN  anova' = [ran |-> TRUE, datos |-> datos, normalidad |-> norm,
                               reporte |-> [c \in Conjuntos |-> reporte_normalidad(norm[c])]]
    /\ UNCHANGED <<soiling_kit_csv, solar_noon, solar_noon_csv, solys2_csv, modulo_csv,
                   align, filas, aligned_csv, sr_csv, excepciones, agregacion, stats_csv,
                   sr_semanal_norm, correlacion>>

---------------------------------------------------------------------------
(* Inputs: the files found on disk when the pipeline starts *)

MaxDays == 2
MaxSK == 3
MaxSolys == 4
MaxFilas == 3

Dates == 0..(MaxDays - 1)

\* subsets of S with at most k elements
RECURSIVE SubsetsLE(_, _)
SubsetsLE(S, k) ==
    IF k = 0 THEN {{}}
    ELSE LET P == SubsetsLE(S, k - 1) IN P \cup {X \cup {e} : X \in P, e \in S}

\* sequences of at most k distinct elements of S
RECURSIVE SeqsLE(_, _)
SeqsLE(S, k) ==
    IF k = 0 THEN {<<>>}
    ELSE LET P == SeqsLE(S, k - 1)
         IN  P \cup {Append(q, e) : q \in P, e \in S}

\* times of day of the raw Soiling Kit samples: around 16:40 UTC, and two
\* more than 50 minutes before it
SKOffsets == {1896, 1900, 1997, 2000, 2003}
\* (Isc(e), Isc(p)) in A
IscPairs == {<<IntR(2), IntR(2)>>, <<IntR(2), Rat(3, 2)>>, <<Rat(1, 2), IntR(2)>>}
NoonOffsets == {2000, 2002}

SKCands == {[t |-> d * DAY + o, Isce |-> c[1], Iscp |-> c[2]] :
               d \in Dates, o \in SKOffsets, c \in IscPairs}

\* one sample per day in the window starting 16:40 UTC, currents 2 A
SKFijo == {[t |-> d * DAY + 2000, Isce |-> IntR(2), Iscp |-> IntR(2)] : d \in Dates}

SRNames == {"soilingkit_sr", "dustiq_sr", "refcells_sr", "pv_glasses_sr",
            "pvstand_sr", "iv600_sr", "pvstand_sr_corr", "iv600_sr_corr"}

align0 == [ran |-> FALSE, aplicar_estabilidad |-> FALSE, sesiones_cargadas |-> <<>>,
           fechas_estables |-> {}, sesiones |-> <<>>, raised |-> FALSE,
           advertencia |-> "None"]

NoSolys2 == [exists |-> FALSE, has_time |-> FALSE, has_col |-> FALSE,
             aware |-> FALSE, off |-> 0, rows |-> <<>>]

\* has_time: the file has the time column its entry of MODULOS_ALINEAR
\* names; parsable: pd.to_datetime accepts every cell of that column
NoModulo == [exists |-> FALSE, has_time |-> FALSE, parsable |-> FALSE,
             aware |-> FALSE, off |-> 0, rows |-> <<>>]

StatsNames == {"sr_semanal_q25_largo", "dispersion_semanal", "ventana_por_dia"}

agregacion0 == [ran |-> FALSE, series_semanales |-> <<>>, datos_con_std |-> <<>>,
                disp_rows |-> <<>>]

correlacion0 == [ran |-> FALSE, escrito |-> FALSE, pares |-> <<>>, mat_r |-> <<>>, mat_n |-> <<>>]

NoNorm == [exists |-> FALSE, cols |-> <<>>, rows |-> <<>>]

anova0 == [ran |-> FALSE, datos |-> <<>>, normalidad |-> <<>>, reporte |-> <<>>]

\* no analysis stage has run and there is no normalised weekly table
InitAnalisis ==
    /\ excepciones = {}
    /\ agregacion = agregacion0
    /\ stats_csv = [n \in StatsNames |-> NoFile]
    /\ sr_semanal_norm = NoNorm
    /\ correlacion = correlacion0
    /\ anova = anova0

\* nothing has run yet: no output file exists
InitOutputs ==
    /\ InitAnalisis
    /\ solar_noon_csv = NoFile
    /\ align = align0
    /\ filas = [sec \in Sections |-> <<>>]
    /\ aligned_csv = [sec \in Sections \cup {"soilingkit"} |-> NoFile]
    /\ sr_csv = [n \in SRNames |-> NoFile]

\* any raw Soiling Kit table, no other instrument
InitSel ==
    /\ soiling_kit_csv \in {[exists |-> TRUE, aware |-> FALSE, off |-> 0, rows |-> S] :
                               S \in SubsetsLE(SKCands, MaxSK)}
    /\ solar_noon \in [Dates -> NoonOffsets]
    /\ solys2_csv = NoSolys2
    /\ modulo_csv = [sec \in Sections |-> NoModulo]
    /\ InitOutputs

NextSel == SeleccionarMediodiaSolar

SKFijoCsv == [exists |-> TRUE, aware |-> FALSE, off |-> 0, rows |-> SKFijo]

\* reference irradiance samples: at the start of the session window and at
\* its end; POA in W/m2
SolysOffsets == {2000, 2010}
SolysPOA == {NaN, IntR(0), IntR(95), IntR(100), IntR(105)}
SolysCands == {[t |-> d * DAY + o, POA |-> g] : d \in Dates, o \in SolysOffsets, g \in SolysPOA}

Solys2Csv(has_time, has_col, S) ==
    [exists |-> TRUE, has_time |-> has_time, has_col |-> has_col,
     aware |-> FALSE, off |-> 0, rows |-> SeqOf(S)]

\* one DustIQ sample per day inside the session window
DustiqFijo == [exists |-> TRUE, has_time |-> TRUE, parsable |-> TRUE, aware |-> FALSE, off |-> 0,
               rows |-> SeqOf({[t |-> d * DAY + 2001, SR_C11_Avg |-> IntR(99)] : d \in Dates})]

\* a session every day, any reference irradiance file, one instrument
InitStab ==
    /\ soiling_kit_csv = SKFijoCsv
    /\ solar_noon = [d \in Dates |-> 2000]
    /\ solys2_csv \in {NoSolys2, Solys2Csv(FALSE, TRUE, {}), Solys2Csv(TRUE, FALSE, {})}
                       \cup {Solys2Csv(TRUE, TRUE, S) : S \in SubsetsLE(SolysCands, MaxSolys)}
    /\ modulo_csv = [sec \in Sections |-> IF sec = "dustiq" THEN DustiqFijo ELSE NoModulo]
    /\ InitOutputs

NextStab ==
    \/ SeleccionarMediodiaSolar
    \/ \E aplicar_estabilidad \in BOOLEAN : RunAlign(aplicar_estabilidad)

SpecStab == InitStab /\ [][NextStab]_vars

\* 1-minute instrument: samples before, inside and at the end of the window
DustiqCands == {[t |-> d * DAY + o, SR_C11_Avg |-> v] :
                   d \in Dates, o \in {1999, 2000, 2009, 2010}, v \in {IntR(90), IntR(101)}}

\* 5-minute instrument: samples in the session window (centre 2005) and at
\* 7, 7.5 and 8 minutes from the centre
PvstandCands == {[t |-> d * DAY + o, module |-> m, pmax |-> IntR(300), imax |-> IntR(9)] :
                    d \in Dates, o \in {1991, 2005, 2019, 2020, 2021},
                    m \in {"perc1fixed", "perc2fixed"}}

\* irregular instrument, local wall clock: samples at the session centre
\* (16:42:30 UTC = 12:42:30 local), 60 minutes from it, and 60.5 before it
Iv600Cands == {[t |-> d * DAY + o, module |-> m, pmp |-> IntR(200), isc |-> IntR(8)] :
                  d \in Dates, o \in {1404, 1405, 1525, 1645}, m \in {"1MD439", "1MD434"}}

ModuloCsv(rows) == [exists |-> TRUE, has_time |-> TRUE, parsable |-> TRUE,
                    aware |-> FALSE, off |-> 0, rows |-> rows]

\* a file without the configured time column
SinColumnaTiempo(rows) == [ModuloCsv(rows) EXCEPT !.has_time = FALSE]

\* a file whose time column holds a string that is no timestamp
NoParseable(rows) == [ModuloCsv(rows) EXCEPT !.parsable = FALSE]

\* the session of the worked example: solar noon and Soiling Kit sample at
\* 13:05 UTC; one-minute samples 13:03 .. 13:07
EjemploSK == [exists |-> TRUE, aware |-> FALSE, off |-> 0,
              rows |-> {[t |-> 785 * MIN, Isce |-> IntR(2), Iscp |-> IntR(2)]}]
EjemploDustiq ==
    << [t |-> 783 * MIN, SR_C11_Avg |-> IntR(10)],
       [t |-> 784 * MIN, SR_C11_Avg |-> IntR(12)],
       [t |-> 785 * MIN, SR_C11_Avg |-> IntR(11)],
       [t |-> 786 * MIN, SR_C11_Avg |-> IntR(13)],
       [t |-> 787 * MIN, SR_C11_Avg |-> IntR(9)] >>

\* a session every day, no reference irradiance file, and one instrument
\* with any table; or the worked example
InitAlign ==
    /\ solys2_csv = NoSolys2
    /\ InitOutputs
    /\ \/ /\ soiling_kit_csv = SKFijoCsv
          /\ solar_noon = [d \in Dates |-> 2000]
          /\ \E rows \in {SeqOf(S) : S \in SubsetsLE(DustiqCands, MaxFilas)} :
                modulo_csv = [sec \in Sections |->
                                IF sec = "dustiq" THEN ModuloCsv(rows) ELSE NoModulo]
       \/ /\ soiling_kit_csv = SKFijoCsv
          /\ solar_noon = [d \in Dates |-> 2000]
          /\ \E rows \in {SeqOf(S) : S \in SubsetsLE(PvstandCands, MaxFilas)} :
                modulo_csv = [sec \in Sections |->
                                IF sec = "pvstand" THEN ModuloCsv(rows) ELSE NoModulo]
       \/ /\ soiling_kit_csv = SKFijoCsv
          /\ solar_noon = [d \in Dates |-> 2000]
          /\ \E rows \in SeqsLE(Iv600Cands, MaxFilas) :
                modulo_csv = [sec \in Sections |->
                                IF sec = "iv600" THEN ModuloCsv(rows) ELSE NoModulo]
       \/ /\ soiling_kit_csv = EjemploSK
          /\ solar_noon = [d \in Dates |-> 785 * MIN]
          /\ modulo_csv = [sec \in Sections |->
                             IF sec = "dustiq" THEN ModuloCsv(EjemploDustiq) ELSE NoModulo]

NextAlign ==
    \/ SeleccionarMediodiaSolar
    \/ \E aplicar_estabilidad \in BOOLEAN : RunAlign(aplicar_estabilidad)

SpecAlign == InitAlign /\ [][NextAlign]_vars

SpecSel == InitSel /\ [][NextSel]_vars

---------------------------------------------------------------------------
(* Solar-noon session selection *)

\* the centre of the 5-minute window of a raw Soiling Kit sample
CentroDe(x) == x.t - (x.t % BIN_5MIN) + HALF_BIN

\* the raw samples of one UTC day
MuestrasDelDia(f) == {x \in soiling_kit_csv.rows : f * DAY <= x.t /\ x.t < (f + 1) * DAY}

MediodiaDe(f) == f * DAY + solar_noon[f]

\* C1: every row of the solar-noon table records a distance to the solar
\* noon of its day of at most 50 minutes, that distance is the distance of
\* the row's window centre, no window of the raw series on the same UTC day
\* has a centre strictly closer, and a day whose closest window is more
\* than 50 minutes away has no row.
C1_NearestWindowWithin50 ==
    solar_noon_csv.exists =>
        /\ \A i \in 1..Len(solar_noon_csv.rows) :
              LET r == solar_noon_csv.rows[i]
                  f == r.timestamp \div DAY
                  d == Abs(r.timestamp - MediodiaDe(f))
              IN  /\ r.dist_solar_noon_min.den > 0
                  /\ r.dist_solar_noon_min.num <= 50 * r.dist_solar_noon_min.den
                  /\ r.dist_solar_noon_min.num * MIN = d * r.dist_solar_noon_min.den
                  /\ \A x \in MuestrasDelDia(f) : Abs(CentroDe(x) - MediodiaDe(f)) >= d
        /\ \A f \in Dates :
              (\A x \in MuestrasDelDia(f) : Abs(CentroDe(x) - MediodiaDe(f)) > 50 * MIN)
              => \A i \in 1..Len(solar_noon_csv.rows) :
                    solar_noon_csv.rows[i].timestamp \div DAY # f

\* a table with a row chosen among several windows of its day, while
\* another day with data was rejected for its distance
C1_Witness ==
    /\ solar_noon_csv.exists
    /\ \E i \in 1..Len(solar_noon_csv.rows) :
          LET r == solar_noon_csv.rows[i]
              f == r.timestamp \div DAY
          IN  \E x \in MuestrasDelDia(f) :
                 Abs(CentroDe(x) - MediodiaDe(f)) > Abs(r.timestamp - MediodiaDe(f))
    /\ \E f \in Dates :
          /\ MuestrasDelDia(f) # {}
          /\ \A x \in MuestrasDelDia(f) : Abs(CentroDe(x) - MediodiaDe(f)) > 50 * MIN

\* C2: every DaySession loaded from the solar-noon table has a window of
\* exactly 5 minutes that starts on a 5-minute boundary and contains its
\* centre: window_start <= center < window_end.
C2_SessionWindow ==
    solar_noon_csv.exists =>
        LET ses == cargar_sesiones_soiling_kit(solar_noon_csv)
        IN  \A i \in 1..Len(ses) :
               /\ ses[i].bin_end - ses[i].bin_start = 5 * MIN
               /\ ses[i].bin_start % (5 * MIN) = 0
               /\ ses[i].bin_start <= ses[i].center
               /\ ses[i].center < ses[i].bin_end

\* a solar-noon table that yields a session for two different days
C2_Witness ==
    /\ solar_noon_csv.exists
    /\ Len(cargar_sesiones_soiling_kit(solar_noon_csv)) >= 2

---------------------------------------------------------------------------
(* Alignment to the Soiling Kit sessions *)

\* the sessions run_align passed to the aligners, as a set
SesionesUsadas == Range(align.sesiones)

\* the entries of the list `filas` of a section that carry rows for a date
EntradasDe(sec, f) == {i \in 1..Len(filas[sec]) : filas[sec][i].date = f /\ filas[sec][i].rows # <<>>}

\* the UTC instant of row i of an instrument file: the files of the model
\* are naive; iv600 is written in local time, 4 hours behind UTC
InstanteDe(sec, i) ==
    IF sec = "iv600" THEN modulo_csv[sec].rows[i].t + 4 * 60 * MIN
    ELSE modulo_csv[sec].rows[i].t

\* the sum of an integer-valued column over the rows with index in I
RECURSIVE SumaCol(_, _, _)
SumaCol(rows, I, col) ==
    IF I = {} THEN 0
    ELSE LET i == CHOOSE j \in I : TRUE
         IN  rows[i][col].num + SumaCol(rows, I \ {i}, col)

Solys2Usable == solys2_csv.exists /\ solys2_csv.has_time /\ solys2_csv.has_col

\* the non-null reference samples inside the window of a session
EnVentanaG(ses) ==
    {i \in 1..Len(solys2_csv.rows) :
        /\ ses.bin_start <= solys2_csv.rows[i].t
        /\ solys2_csv.rows[i].t < ses.bin_end
        /\ solys2_csv.rows[i].POA.den # 0}

\* at least 2 samples, mean > 0 and (max - min) / mean < 0.10, in integers:
\* 10 * n * (max - min) < sum
EstableSegunRegla(ses) ==
    LET I == EnVentanaG(ses)
        g(i) == solys2_csv.rows[i].POA.num
        suma == SumaCol(solys2_csv.rows, I, "POA")
    IN  /\ Cardinality(I) >= 2
        /\ suma > 0
        /\ \A i \in I : \A j \in I : 10 * Cardinality(I) * (g(i) - g(j)) < suma

\* C4: with stability filtering enabled and a usable reference file, every
\* day written by run_align, in the Soiling Kit table and in the table of
\* every instrument, is a day classified stable.
C4_OnlyStableDaysAligned ==
    (align.ran /\ align.aplicar_estabilidad /\ Solys2Usable) =>
        /\ \A k \in 1..Len(aligned_csv["soilingkit"].rows) :
              \E ses \in Range(align.sesiones_cargadas) :
                 /\ ses.date = aligned_csv["soilingkit"].rows[k].timestamp \div DAY
                 /\ EstableSegunRegla(ses)
        /\ \A sec \in Sections : \A i \in 1..Len(filas[sec]) :
              filas[sec][i].rows # <<>> =>
                 \E ses \in Range(align.sesiones_cargadas) :
                    ses.date = filas[sec][i].date /\ EstableSegunRegla(ses)

\* C5: with a usable reference file, a session day is classified stable
\* exactly when its window [window_start, window_end) holds at least 2
\* non-null samples with mean > 0 and (max - min) / mean < 0.10.
C5_StableIffRule ==
    (align.ran /\ Solys2Usable) =>
        \A ses \in Range(align.sesiones_cargadas) :
            (ses.date \in align.fechas_estables) <=> EstableSegunRegla(ses)

\* one day classified stable, and one day with two samples whose ratio is
\* exactly 0.10 (95 and 105 W/m2) classified not stable
C5_Witness ==
    /\ align.ran /\ Solys2Usable
    /\ \E ses \in Range(align.sesiones_cargadas) : ses.date \in align.fechas_estables
    /\ \E ses \in Range(align.sesiones_cargadas) :
          /\ ses.date \notin align.fechas_estables
          /\ {solys2_csv.rows[i].POA.num : i \in EnVentanaG(ses)} = {95, 105}

\* the rows of an entry of `filas`, as the set of (time, data) they carry
FilasDeEntrada(sec, i) == Range(filas[sec][i].rows)

\* row j of the instrument file as an aligned row: its data columns and its
\* own UTC time under "timestamp"
ComoAlineada(sec, j) ==
    [c \in (DOMAIN modulo_csv[sec].rows[j] \ {"t"}) \cup {"timestamp"} |->
        IF c = "timestamp" THEN InstanteDe(sec, j) ELSE modulo_csv[sec].rows[j][c]]

\* the distance of row j of the instrument file to the centre of a session
Distancia(sec, j, ses) == Abs(InstanteDe(sec, j) - ses.center)

\* the rows of the instrument file at minimal distance from the centre
MasCercanas(sec, ses) ==
    {j \in 1..Len(modulo_csv[sec].rows) :
        \A k \in 1..Len(modulo_csv[sec].rows) : Distancia(sec, j, ses) <= Distancia(sec, k, ses)}

\* C6: for every session the 5-minute strategy outputs exactly the rows of
\* the session's 5-minute window if there are any; otherwise the nearest
\* row(s) if they are at most 7.5 minutes from the centre; otherwise
\* nothing for that day.
C6_FiveMinSelection ==
    (align.ran /\ modulo_csv["pvstand"].exists) =>
        \A ses \in SesionesUsadas :
            LET EnBin == {j \in 1..Len(modulo_csv["pvstand"].rows) :
                            /\ ses.bin_start <= InstanteDe("pvstand", j)
                            /\ InstanteDe("pvstand", j) < ses.bin_start + 5 * MIN}
                Cerca == MasCercanas("pvstand", ses)
                E == EntradasDe("pvstand", ses.date)
                Esperadas == IF EnBin # {} THEN EnBin
                             ELSE IF \E j \in Cerca : 2 * Distancia("pvstand", j, ses) <= 15 * MIN
                                  THEN Cerca
                                  ELSE {}
            IN  IF Esperadas = {} THEN E = {}
                ELSE /\ Cardinality(E) = 1
                     /\ \A i \in E :
                          /\ Len(filas["pvstand"][i].rows) = Cardinality(Esperadas)
                          /\ FilasDeEntrada("pvstand", i) = {ComoAlineada("pvstand", j) : j \in Esperadas}

\* one session served by a row 7 minutes from the centre with no row in
\* its window, and one session absent with its nearest row at 8 minutes
C6_Witness ==
    /\ align.ran /\ modulo_csv["pvstand"].exists
    /\ \E ses \in SesionesUsadas :
          /\ EntradasDe("pvstand", ses.date) # {}
          /\ \E j \in MasCercanas("pvstand", ses) : Distancia("pvstand", j, ses) = 7 * MIN
    /\ \E ses \in SesionesUsadas :
          /\ EntradasDe("pvstand", ses.date) = {}
          /\ \E j \in MasCercanas("pvstand", ses) : Distancia("pvstand", j, ses) = 8 * MIN

\* the samples of the 1-minute instrument inside the window of a session
EnVentana1min(ses) ==
    {j \in 1..Len(modulo_csv["dustiq"].rows) :
        /\ ses.bin_start <= InstanteDe("dustiq", j)
        /\ InstanteDe("dustiq", j) < ses.bin_end}

\* C7: for every session with at least one sample in [window_start,
\* window_end) the 1-minute strategy outputs exactly one row, whose value
\* is the arithmetic mean of exactly those samples; a session without a
\* sample in its window has no row; in the worked example (session window
\* starting 13:05, samples 13:03 .. 13:07 = 10, 12, 11, 13, 9) the value
\* is 11.
C7_OneMinuteMean ==
    (align.ran /\ modulo_csv["dustiq"].exists) =>
        /\ \A ses \in SesionesUsadas :
              LET W == EnVentana1min(ses)
                  E == {i \in 1..Len(filas["dustiq"]) : filas["dustiq"][i].date = ses.date}
              IN  IF W = {} THEN E = {}
                  ELSE /\ Cardinality(E) = 1
                       /\ \A i \in E :
                            /\ Len(filas["dustiq"][i].rows) = 1
                            /\ LET v == filas["dustiq"][i].rows[1].SR_C11_Avg
                               IN  /\ v.den > 0
                                   /\ v.num * Cardinality(W)
                                        = v.den * SumaCol(modulo_csv["dustiq"].rows, W, "SR_C11_Avg")
        /\ modulo_csv["dustiq"].rows = EjemploDustiq =>
              /\ Len(aligned_csv["dustiq"].rows) = 1
              /\ aligned_csv["dustiq"].rows[1].SR_C11_Avg = IntR(11)

\* a session averaged over two samples of its window while a third sample
\* lies exactly at window_end, and a session without a row
C7_Witness ==
    /\ align.ran /\ modulo_csv["dustiq"].exists
    /\ \E ses \in SesionesUsadas :
          /\ Cardinality(EnVentana1min(ses)) = 2
          /\ \E j \in 1..Len(modulo_csv["dustiq"].rows) : InstanteDe("dustiq", j) = ses.bin_end
          /\ \E i \in 1..Len(filas["dustiq"]) : filas["dustiq"][i].date = ses.date
    /\ \E ses \in SesionesUsadas :
          \A i \in 1..Len(filas["dustiq"]) : filas["dustiq"][i].date # ses.date

\* C8: for every session the irregular strategy outputs at most one row,
\* a row of the instrument file at minimal distance from the centre once
\* its local times are converted to UTC, and it skips the day exactly when
\* that minimal distance exceeds 60 minutes.
C8_IrregularNearestWithin60 ==
    (align.ran /\ modulo_csv["iv600"].exists /\ modulo_csv["iv600"].rows # <<>>) =>
        \A ses \in SesionesUsadas :
            LET Cerca == MasCercanas("iv600", ses)
                E == {i \in 1..Len(filas["iv600"]) : filas["iv600"][i].date = ses.date}
                lejos == \A j \in Cerca : Distancia("iv600", j, ses) > 60 * MIN
            IN  /\ lejos <=> E = {}
                /\ Cardinality(E) <= 1
                /\ \A i \in E :
                      /\ Len(filas["iv600"][i].rows) = 1
                      /\ \E j \in Cerca : filas["iv600"][i].rows[1] = ComoAlineada("iv600", j)

\* one session matched to a row exactly 60 minutes from its centre and one
\* session skipped
C8_Witness ==
    /\ align.ran /\ modulo_csv["iv600"].exists /\ modulo_csv["iv600"].rows # <<>>
    /\ \E ses \in SesionesUsadas :
          /\ \E i \in 1..Len(filas["iv600"]) : filas["iv600"][i].date = ses.date
          /\ \A j \in MasCercanas("iv600", ses) : Distancia("iv600", j, ses) = 60 * MIN
    /\ \E ses \in SesionesUsadas :
          \A i \in 1..Len(filas["iv600"]) : filas["iv600"][i].date # ses.date

---------------------------------------------------------------------------
(* Inputs of the SR stages: aligned tables *)

MaxAligned == 4

TsSR == {2005, DAY + 2005}

AlignedCsv(rows) == [exists |-> TRUE, rows |-> rows]

\* Soiling Kit rows (solar-noon and aligned table)
SKAlignedCands ==
    {[timestamp |-> ts, dist_solar_noon_min |-> Rat(5, 2), Isce |-> c[1], Iscp |-> c[2]] :
        ts \in TsSR,
        c \in IscPairs \cup {<<IntR(0), IntR(2)>>, <<IntR(2), IntR(1)>>}}

DustiqAlignedCands ==
    {[timestamp |-> ts, SR_C11_Avg |-> v] :
        ts \in TsSR, v \in {NaN, IntR(79), IntR(80), IntR(99)}}

RefcellsAlignedCands ==
    {[timestamp |-> ts, RC411 |-> c[1], RC412 |-> c[2]] :
        ts \in TsSR,
        c \in {<<IntR(700), IntR(800)>>, <<IntR(800), IntR(600)>>, <<IntR(0), IntR(0)>>,
               <<NaN, IntR(800)>>}}

PvGlassesAlignedCands ==
    {[timestamp |-> ts, REF |-> IntR(100), R_FC3_Avg |-> a, R_FC4_Avg |-> IntR(90),
      R_FC5_Avg |-> b] :
        ts \in TsSR, a \in {IntR(70), IntR(95)}, b \in {IntR(60), IntR(95)}}

\* fixed stand: reference module (sound or failed) and soiled module
PvstandAlignedCands ==
    {[timestamp |-> ts, module |-> PVSTAND_MODULO_439_REF, pmax |-> p, imax |-> IntR(10)] :
        ts \in TsSR, p \in {IntR(100), IntR(5)}}
    \cup
    {[timestamp |-> ts, module |-> PVSTAND_MODULO_440_SUCIO, pmax |-> c[1], imax |-> c[2]] :
        ts \in TsSR,
        c \in {<<IntR(5), IntR(10)>>, <<IntR(70), IntR(10)>>, <<IntR(85), IntR(10)>>,
               <<IntR(100), IntR(7)>>, <<IntR(100), IntR(10)>>}}

Iv600AlignedCands ==
    {[timestamp |-> ts, module |-> IV600_MODULO_REF, pmp |-> p, isc |-> IntR(10)] :
        ts \in TsSR, p \in {IntR(100), IntR(5)}}
    \cup
    {[timestamp |-> ts, module |-> m, pmp |-> c[1], isc |-> c[2]] :
        ts \in TsSR, m \in {IV600_MODULO_SUCIO, "Unknown Module"},
        c \in {<<IntR(70), IntR(10)>>, <<IntR(85), IntR(10)>>, <<IntR(100), IntR(7)>>,
               <<IntR(100), IntR(10)>>}}

\* one temperature row per day at most, stamped with the session centre:
\* both modules at 25 C, or the reference module at 45 C
TempAligned ==
    {SortByTimestamp(S) :
        S \in {X \in SUBSET {[timestamp |-> ts, TE416 |-> IntR(25), TE418 |-> T] :
                                 ts \in TsSR, T \in {IntR(25), IntR(45)}} :
                  \A x \in X : \A y \in X : x.timestamp = y.timestamp => x = y}}

NoAligned == [sec \in Sections \cup {"soilingkit"} |-> NoFile]

\* the aligned table of one instrument (with the temperature table for the
\* two-module instruments), nothing computed yet
InitSR ==
    /\ InitAnalisis
    /\ soiling_kit_csv = [exists |-> FALSE, aware |-> FALSE, off |-> 0, rows |-> {}]
    /\ solar_noon = [d \in Dates |-> 2000]
    /\ solys2_csv = NoSolys2
    /\ modulo_csv = [sec \in Sections |-> NoModulo]
    /\ align = align0
    /\ filas = [sec \in Sections |-> <<>>]
    /\ sr_csv = [n \in SRNames |-> NoFile]
    /\ \/ /\ \E S \in SubsetsLE(SKAlignedCands, 2) \ {{}} :
                /\ \A x \in S : \A y \in S : x.timestamp = y.timestamp => x = y
                /\ solar_noon_csv = AlignedCsv(SortByTimestamp(S))
                /\ aligned_csv = [NoAligned EXCEPT !["soilingkit"] = AlignedCsv(SortByTimestamp(S))]
       \/ /\ solar_noon_csv = NoFile
          /\ \E S \in SubsetsLE(DustiqAlignedCands, 2) \ {{}} :
                aligned_csv = [NoAligned EXCEPT !["dustiq"] = AlignedCsv(SeqOf(S))]
       \/ /\ solar_noon_csv = NoFile
          /\ \E S \in SubsetsLE(RefcellsAlignedCands, 2) \ {{}} :
                aligned_csv = [NoAligned EXCEPT !["refcells"] = AlignedCsv(SeqOf(S))]
       \/ /\ solar_noon_csv = NoFile
          /\ \E S \in SubsetsLE(PvGlassesAlignedCands, 2) \ {{}} :
                aligned_csv = [NoAligned EXCEPT !["pv_glasses"] = AlignedCsv(SeqOf(S))]
       \/ /\ solar_noon_csv = NoFile
          /\ \E S \in SubsetsLE(PvstandAlignedCands, MaxAligned) \ {{}} : \E temp \in TempAligned :
                aligned_csv = [NoAligned EXCEPT !["pvstand"] = AlignedCsv(SeqOf(S)),
                                                !["temperatura"] =
                                                   IF temp = <<>> THEN NoFile ELSE AlignedCsv(temp)]
       \/ /\ solar_noon_csv = NoFile
          /\ \E S \in SubsetsLE(Iv600AlignedCands, MaxAligned) \ {{}} : \E temp \in TempAligned :
                aligned_csv = [NoAligned EXCEPT !["iv600"] = AlignedCsv(SeqOf(S)),
                                                !["temperatura"] =
                                                   IF temp = <<>> THEN NoFile ELSE AlignedCsv(temp)]

NextSR ==
    \/ CalcularSr
    \/ RunSrModulos
    \/ RunPvstandSrCorr
    \/ RunIv600SrCorr

SpecSR == InitSR /\ [][NextSR]_vars

---------------------------------------------------------------------------
(* Claims about the SR stages *)

\* the column of each SR table that the weekly aggregator consumes
ColumnaPrimaria(n) ==
    CASE n = "pvstand_sr"      -> "SR_Pmax"
      [] n = "pvstand_sr_corr" -> "SR_Pmax_corr"
      [] n = "iv600_sr"        -> "SR_Pmax_434"
      [] n = "iv600_sr_corr"   -> "SR_Pmax_corr_434"
      [] OTHER                 -> "SR"

\* C9: in every SR table written by an SR stage, every value of the primary
\* SR column (the one the weekly aggregator consumes) is null or >= 80.
C9_PrimarySRNullOrAtLeast80 ==
    \A n \in SRNames :
        sr_csv[n].exists =>
            \A i \in 1..Len(sr_csv[n].rows) :
                ~es_outlier(sr_csv[n].rows[i][ColumnaPrimaria(n)])

\* the SR variants a table tracks
VariantesSR(r) == DOMAIN r \cap SR_COLS

\* the table of SR values a stage computed from the aligned tables, before
\* its outlier filter (same rows, same order as the table it writes)
AntesDelFiltro(n) ==
    CASE n = "pvstand_sr_corr" -> pvstand_corr_df(aligned_csv["pvstand"].rows,
                                                  aligned_csv["temperatura"].rows)
      [] n = "iv600_sr_corr"   -> iv600_corr_df(aligned_csv["iv600"].rows,
                                                aligned_csv["temperatura"].rows)
      [] OTHER -> LET m == CHOOSE x \in Range(MODULOS_SR) : n = SrName(x)
                  IN  func_sr(m, aligned_csv[m].rows)

\* C10: outlier suppression is all-or-nothing per row in every SR stage: on
\* an output row where at least one tracked SR variant was computed below
\* 80, all SR variant columns of the row are null.  (The Soiling Kit table
\* has the single variant SR, so there the statement is about that column.)
C10_OutlierRowAllNull ==
    \A n \in SRNames :
        sr_csv[n].exists =>
            IF n = "soilingkit_sr"
            THEN \A i \in 1..Len(sr_csv[n].rows) : ~es_outlier(sr_csv[n].rows[i].SR)
            ELSE \A i \in 1..Len(sr_csv[n].rows) :
                    (\E c \in VariantesSR(AntesDelFiltro(n)[i]) :
                        es_outlier(AntesDelFiltro(n)[i][c]))
                    => \A c \in VariantesSR(sr_csv[n].rows[i]) : isna(sr_csv[n].rows[i][c])

\* C11: in the Soiling Kit SR table (written by calcular_sr, and by
\* sr_soilingkit through run_sr_modulos) every row with a non-null SR has
\* SR = 100 * Isc(p) / Isc(e), and no row has a non-null SR while
\* Isc(e) <= 0 or while either current is below 1.0 A.
C11_SoilingKitFormulaAndGuards ==
    sr_csv["soilingkit_sr"].exists =>
        \A i \in 1..Len(sr_csv["soilingkit_sr"].rows) :
            LET r == sr_csv["soilingkit_sr"].rows[i]
            IN  ~isna(r.SR) =>
                    /\ r.SR = pct(r.Iscp, r.Isce)
                    /\ RLt(IntR(0), r.Isce)
                    /\ RLe(IntR(UMBRAL_ISC_MIN), r.Isce)
                    /\ RLe(IntR(UMBRAL_ISC_MIN), r.Iscp)

\* the two-module SR tables: aligned section, power column, module names
DosModulos(n) ==
    IF n \in {"pvstand_sr", "pvstand_sr_corr"}
    THEN [sec |-> "pvstand", pot |-> "pmax",
          mods |-> {PVSTAND_MODULO_439_REF, PVSTAND_MODULO_440_SUCIO}]
    ELSE [sec |-> "iv600", pot |-> "pmp",
          mods |-> {IV600_MODULO_REF, IV600_MODULO_SUCIO}]

\* some module's power used for the row of time ts is below the 10 W guard
PotenciaBajoGuarda(n, ts) ==
    \E m \in DosModulos(n).mods :
        LET tab == filas_modulo(aligned_csv[DosModulos(n).sec].rows, m)
        IN  /\ tiene_ts(tab, ts)
            /\ RLt(fila_ts(tab, ts)[DosModulos(n).pot], IntR(UMBRAL_PMAX_FALLA_PVSTAND))

\* C12: in every two-module SR table (fixed stand and IV tracer, plain and
\* temperature corrected), a row on which either module's power is below
\* 10 W has every SR value null.
C12_PowerGuardForcesNull ==
    \A n \in {"pvstand_sr", "pvstand_sr_corr", "iv600_sr", "iv600_sr_corr"} :
        sr_csv[n].exists =>
            \A i \in 1..Len(sr_csv[n].rows) :
                PotenciaBajoGuarda(n, sr_csv[n].rows[i].timestamp)
                => \A c \in VariantesSR(sr_csv[n].rows[i]) : isna(sr_csv[n].rows[i][c])

\* the tables a stage may have computed before its outlier filter: the
\* Soiling Kit table has two writers (calcular_sr after its current filter,
\* run_sr_modulos)
TablasAntesDelFiltro(n) ==
    IF n = "soilingkit_sr"
    THEN {filtro_corriente_sr(solar_noon_csv.rows), AntesDelFiltro(n)}
    ELSE {AntesDelFiltro(n)}

\* the columns a stage computes; every other column is an input channel
ColumnasCalculadas == SR_COLS \ {"SR_C11_Avg"}

\* C13: outlier nulling never deletes a row and changes nothing but the SR
\* values computed by the stage: the table written has as many rows as the
\* table before the outlier filter, and every input channel column (the
\* native ratio channel SR_C11_Avg of the pass-through instrument included)
\* keeps its value on every row.
C13_OutlierFilterKeepsRowsAndChannels ==
    \A n \in SRNames :
        sr_csv[n].exists =>
            \E pre \in TablasAntesDelFiltro(n) :
                /\ Len(sr_csv[n].rows) = Len(pre)
                /\ \A i \in 1..Len(pre) :
                      /\ DOMAIN sr_csv[n].rows[i] = DOMAIN pre[i]
                      /\ \A c \in DOMAIN pre[i] \ ColumnasCalculadas :
                            sr_csv[n].rows[i][c] = pre[i][c]

---------------------------------------------------------------------------
(* Inputs of the weekly aggregation: daily SR tables *)

MaxDiario == 3

\* a Sunday, the Monday after it, the next Sunday and the Monday after that
DiasSemanal == {3, 4, 10, 11}

SrCsv(rows) == [exists |-> TRUE, rows |-> rows]

DiarioCands(col) ==
    {[c \in {"timestamp", col} |-> IF c = "timestamp" THEN d * DAY + 2005 ELSE v] :
        d \in DiasSemanal, v \in {NaN, IntR(79), IntR(80), IntR(90)}}

\* the worked example: Monday 1970-01-05 .. Sunday 1970-01-11
EjemploSemana ==
    LET v == <<90, 91, 100, 95, 80, 85, 99>>
    IN  [i \in 1..7 |-> [timestamp |-> (3 + i) * DAY + 2005, SR |-> IntR(v[i])]]

\* a DustIQ table with two weeks
DustiqDosSemanas ==
    << [timestamp |-> 4 * DAY + 2005, SR |-> IntR(95)],
       [timestamp |-> 11 * DAY + 2005, SR |-> IntR(97)] >>

SinSR == [n \in SRNames |-> NoFile]

\* the daily SR table of one instrument, any distinct rows (nulls, outliers,
\* several rows per day), alone or next to a two-week DustIQ table; or the worked
\* example
InitSemanal ==
    /\ InitAnalisis
    /\ soiling_kit_csv = [exists |-> FALSE, aware |-> FALSE, off |-> 0, rows |-> {}]
    /\ solar_noon = [d \in Dates |-> 2000]
    /\ solar_noon_csv = NoFile
    /\ solys2_csv = NoSolys2
    /\ modulo_csv = [sec \in Sections |-> NoModulo]
    /\ align = align0
    /\ filas = [sec \in Sections |-> <<>>]
    /\ aligned_csv = NoAligned
    /\ \/ \E rows \in {SeqOf(S) : S \in SubsetsLE(DiarioCands("SR"), MaxDiario)} : \E conDustiq \in BOOLEAN :
             sr_csv = [SinSR EXCEPT !["soilingkit_sr"] = SrCsv(rows),
                                    !["dustiq_sr"] = IF conDustiq THEN SrCsv(DustiqDosSemanas)
                                                     ELSE NoFile]
       \/ \E rows \in {SeqOf(S) : S \in SubsetsLE(DiarioCands("SR_Pmax"), MaxDiario)} :
             sr_csv = [SinSR EXCEPT !["dustiq_sr"] = SrCsv(DustiqDosSemanas),
                                    !["pvstand_sr"] = SrCsv(rows)]
       \/ sr_csv = [SinSR EXCEPT !["soilingkit_sr"] = SrCsv(EjemploSemana)]

NextSemanal == RunAgregacionSemanal

SpecSemanal == InitSemanal /\ [][NextSemanal]_vars

---------------------------------------------------------------------------
(* Claims about the weekly aggregation *)

\* the Monday on or before a date
LunesAnterior(d) == CHOOSE m \in (d - 6)..d : weekday(m) = 0

\* the daily series the aggregator loaded for an instrument of the
\* configuration
SerieDe(nombre) ==
    serie_diaria(CHOOSE k \in 1..Len(build_config) : build_config[k].nombre = nombre)

\* the daily values of an instrument whose Monday on or before is w
ValoresDeLaSemana(nombre, w) ==
    LET sub == SelectSeq(SerieDe(nombre), LAMBDA x : LunesAnterior(x.fecha) = w)
    IN  [i \in 1..Len(sub) |-> sub[i].valor]

\* q is the 25th percentile (linear interpolation) of the values vs
EsQ25(q, vs) ==
    LET v == SortVals(vs)
        h == (Len(v) - 1) \div 4
        rem == (Len(v) - 1) % 4
    IN  RMul(IntR(4), q) =
            IF rem = 0 THEN RMul(IntR(4), v[h + 1])
            ELSE RAdd(RMul(IntR(4 - rem), v[h + 1]), RMul(IntR(rem), v[h + 2]))

\* C14: every daily SR value falls into exactly one weekly bucket, the one
\* whose week start is the Monday on or before its day; the bucket's sr_q25
\* is the 25th percentile and its n the count of exactly that bucket's daily
\* values; the seven days Monday..Sunday [90, 91, 100, 95, 80, 85, 99] give
\* one week with n = 7 and Q25 = 87.5.
C14_WeeklyBuckets ==
    agregacion.ran =>
        /\ \A i \in 1..Len(agregacion.datos_con_std) :
              LET nombre == agregacion.datos_con_std[i].nombre
                  sem == agregacion.datos_con_std[i].semanal
              IN  /\ \A x \in Range(SerieDe(nombre)) :
                        Cardinality({j \in 1..Len(sem) : sem[j].semana = LunesAnterior(x.fecha)}) = 1
                  /\ \A j \in 1..Len(sem) :
                        /\ weekday(sem[j].semana) = 0
                        /\ sem[j].n = Len(ValoresDeLaSemana(nombre, sem[j].semana))
                        /\ sem[j].n > 0
                        /\ EsQ25(sem[j].sr_q25, ValoresDeLaSemana(nombre, sem[j].semana))
                        /\ agregacion.series_semanales[i].semanal[j] =
                              [semana |-> sem[j].semana, sr_q25 |-> sem[j].sr_q25]
        /\ sr_csv["soilingkit_sr"].rows = EjemploSemana =>
              agregacion.datos_con_std =
                  << [nombre |-> "Soiling Kit",
                      semanal |-> << [semana |-> 4, sr_q25 |-> Rat(175, 2),
                                      std |-> agregacion.datos_con_std[1].semanal[1].std,
                                      n |-> 7] >>] >>

\* a series with a Monday and the Sunday of its week in one bucket and the
\* Monday after in the next was aggregated
C14_Witness ==
    /\ agregacion.ran
    /\ \E i \in 1..Len(agregacion.datos_con_std) :
          LET sem == agregacion.datos_con_std[i].semanal
              dias == {x.fecha : x \in Range(SerieDe(agregacion.datos_con_std[i].nombre))}
          IN  /\ dias = {4, 10, 11}
              /\ Len(sem) = 2
              /\ sem[1].semana = 4 /\ sem[1].n = 2
              /\ sem[2].semana = 11 /\ sem[2].n = 1

\* the instruments of the configuration that have a daily value
InstrumentosConDatos == {build_config[k].nombre : k \in Range(con_datos)}

\* the weeks of an instrument's Q25 series
SemanasDe(nombre) == {LunesAnterior(x.fecha) : x \in Range(SerieDe(nombre))}

\* C15: when an instrument's weekly Q25 series has fewer than 2 weeks, run
\* skips only that instrument's dispersion summary: no exception is raised,
\* every instrument with data is still processed, and the weekly and the
\* dispersion tables are written (the latter with the instruments that have
\* at least 2 weeks).
C15_FewWeeksSkipsOnlyDispersion ==
    (agregacion.ran /\ \E nombre \in InstrumentosConDatos : Cardinality(SemanasDe(nombre)) < 2)
    => /\ "agregacion_semanal.run" \notin excepciones
       /\ {agregacion.series_semanales[i].nombre : i \in 1..Len(agregacion.series_semanales)}
             = InstrumentosConDatos
       /\ stats_csv["sr_semanal_q25_largo"].exists
       /\ {r.instrumento : r \in Range(stats_csv["sr_semanal_q25_largo"].rows)}
             = InstrumentosConDatos
       /\ stats_csv["dispersion_semanal"].exists
       /\ {r.instrumento : r \in Range(stats_csv["dispersion_semanal"].rows)}
             = {nombre \in InstrumentosConDatos : Cardinality(SemanasDe(nombre)) >= 2}

---------------------------------------------------------------------------
(* Inputs of the cross-instrument stages: the normalised weekly table *)

MaxSemanas == 4

InstrumentosNorm == <<"Soiling Kit", "DustIQ", "RefCells">>

\* the values of the first two instruments in one week: the first one
\* missing, or both present
ParesNorm == {<<NaN, IntR(100)>>, <<IntR(98), IntR(100)>>, <<IntR(100), IntR(97)>>,
              <<IntR(100), IntR(100)>>}

\* week i of the table: the third instrument has a value every week
FilaNorm(i, q) ==
    [c \in {"semana"} \cup Range(InstrumentosNorm) |->
        IF c = "semana" THEN IntR(4 + 7 * i)
        ELSE IF c = "Soiling Kit" THEN q[1]
        ELSE IF c = "DustIQ" THEN q[2]
        ELSE IntR(100 - (i % 3))]

NormCsv(qs) == [exists |-> TRUE, cols |-> InstrumentosNorm,
                rows |-> [i \in 1..Len(qs) |-> FilaNorm(i, qs[i])]]

RECURSIVE Tuplas(_, _)
Tuplas(S, k) ==
    IF k = 0 THEN {<<>>}
    ELSE LET P == Tuplas(S, k - 1) IN P \cup {Append(q, e) : q \in {x \in P : Len(x) = k - 1}, e \in S}

InitNorm ==
    /\ soiling_kit_csv = [exists |-> FALSE, aware |-> FALSE, off |-> 0, rows |-> {}]
    /\ solar_noon = [d \in Dates |-> 2000]
    /\ solar_noon_csv = NoFile
    /\ solys2_csv = NoSolys2
    /\ modulo_csv = [sec \in Sections |-> NoModulo]
    /\ align = align0
    /\ filas = [sec \in Sections |-> <<>>]
    /\ aligned_csv = NoAligned
    /\ sr_csv = SinSR
    /\ excepciones = {}
    /\ agregacion = agregacion0
    /\ stats_csv = [n \in StatsNames |-> NoFile]
    /\ correlacion = correlacion0
    /\ anova = anova0
    /\ \E qs \in Tuplas(ParesNorm, MaxSemanas) : sr_semanal_norm = NormCsv(qs)

NextCorr == RunCorrelacion

SpecCorr == InitNorm /\ [][NextCorr]_vars

\* the weeks of the normalised table in which both instruments have a value
SemanasEmparejadas(a, b) ==
    {i \in 1..Len(sr_semanal_norm.rows) :
        ~isna(sr_semanal_norm.rows[i][a]) /\ ~isna(sr_semanal_norm.rows[i][b])}

EntradasDelPar(a, b) ==
    {i \in 1..Len(correlacion.pares) :
        correlacion.pares[i].instrumento_A = a /\ correlacion.pares[i].instrumento_B = b}

ParesDeInstrumentos ==
    {<<InstrumentosNorm[i], InstrumentosNorm[j]>> : i, j \in 1..Len(InstrumentosNorm)}

NingunParCalifica ==
    \A q \in ParesDeInstrumentos :
        q[1] # q[2] => Cardinality(SemanasEmparejadas(q[1], q[2])) < 4

\* C16: after the correlation run an instrument pair has an entry exactly
\* when it has at least 4 paired weeks, the entry carries the number of
\* paired weeks and r, bias and RMSE computed over those weeks only, the
\* matrix has n = 0 and r undefined for the other pairs, and when no pair
\* qualifies the pairwise table comes back empty and nothing is raised.
C16_PairsNeedFourWeeks ==
    correlacion.ran =>
        /\ \A k \in 1..Len(combinations2(InstrumentosNorm)) :
              LET a == combinations2(InstrumentosNorm)[k][1]
                  b == combinations2(InstrumentosNorm)[k][2]
                  S == SemanasEmparejadas(a, b)
                  sub == SelectSeq(sr_semanal_norm.rows,
                                   LAMBDA r : ~isna(r[a]) /\ ~isna(r[b]))
              IN  /\ correlacion.escrito =>
                        (Cardinality(EntradasDelPar(a, b)) = 1 <=> Cardinality(S) >= 4)
                  /\ EntradasDelPar(b, a) = {}
                  /\ \A i \in EntradasDelPar(a, b) :
                        /\ Cardinality(S) >= 4
                        /\ correlacion.pares[i].n_semanas = Cardinality(S)
                        /\ correlacion.pares[i].r_pearson =
                               pearsonr(columna(sub, a), columna(sub, b))
                        /\ correlacion.pares[i].bias_pp =
                               RDiv(SumR([j \in 1..Len(sub) |->
                                            [x |-> RSub(sub[j][a], sub[j][b])]], "x"),
                                    IntR(Len(sub)))
                  /\ Cardinality(S) < 4 =>
                        /\ correlacion.mat_n[<<a, b>>] = 0
                        /\ isna(correlacion.mat_r[<<a, b>>])
        /\ NingunParCalifica =>
              /\ "correlacion_cruzada.run" \notin excepciones
              /\ correlacion.pares = <<>>

NextAnova == RunAnova

SpecAnova == InitNorm /\ [][NextAnova]_vars

\* the observations of one instrument in one view of the normalised table
ObservacionesDe(c, inst) ==
    LET completa(i) == \A k \in 1..Len(InstrumentosNorm) :
                          \/ ~isna(sr_semanal_norm.rows[i][InstrumentosNorm[k]])
                          \/ \A j \in 1..Len(sr_semanal_norm.rows) :
                                 isna(sr_semanal_norm.rows[j][InstrumentosNorm[k]])
    IN  {i \in 1..Len(sr_semanal_norm.rows) :
            /\ ~isna(sr_semanal_norm.rows[i][inst])
            /\ c = "Interseccion" => completa(i)}

\* C17: a group with fewer than 3 observations has statistic, p-value and
\* verdict marked not-applicable in the normality table and in the
\* report, where it shows neither the "normal" nor the "not normal" mark.
C17_ShapiroSkippedNotApplicable ==
    anova.ran =>
        \A c \in Conjuntos : \A inst \in DOMAIN anova.normalidad[c] :
            Cardinality(ObservacionesDe(c, inst)) < 3 =>
                /\ anova.normalidad[c][inst].shapiro_W = "nan"
                /\ anova.normalidad[c][inst].shapiro_p = "nan"
                /\ anova.normalidad[c][inst].normal_alpha05 = "nan"
                /\ anova.reporte[c][inst].W = "nan"
                /\ anova.reporte[c][inst].p = "nan"
                /\ anova.reporte[c][inst].ok \notin {"check", "cross"}

---------------------------------------------------------------------------
(* Inputs of the within-window statistics *)

\* 1-minute samples at the start, inside and at the end of the session
\* window [2000, 2010), with and without a value
VentanaCands == {[t |-> d * DAY + o, SR_C11_Avg |-> v] :
                    d \in Dates, o \in {2000, 2005, 2010},
                    v \in {NaN, IntR(90), IntR(101)}}

\* the daily SR tables hold a DustIQ table with one value in each of two weeks
InitVentana ==
    /\ solys2_csv = NoSolys2
    /\ InitAnalisis
    /\ solar_noon_csv = NoFile
    /\ align = align0
    /\ filas = [sec \in Sections |-> <<>>]
    /\ aligned_csv = NoAligned
    /\ sr_csv = [SinSR EXCEPT !["dustiq_sr"] = SrCsv(DustiqDosSemanas)]
    /\ soiling_kit_csv = SKFijoCsv
    /\ solar_noon = [d \in Dates |-> 2000]
    /\ \E rows \in {SeqOf(S) : S \in SubsetsLE(VentanaCands, MaxFilas)} :
          modulo_csv = [sec \in Sections |->
                          IF sec = "dustiq" THEN ModuloCsv(rows) ELSE NoModulo]

NextVentana ==
    \/ SeleccionarMediodiaSolar
    \/ \E usar_solo_dias_estables \in BOOLEAN : RunAnalisis(usar_solo_dias_estables)
    \/ RunAgregacionSemanal

SpecVentana == InitVentana /\ [][NextVentana]_vars

\* C18: a standard deviation taken from fewer than 2 values is null, in the
\* per-day within-window table and in the per-week table of Q25 and std;
\* it is never a number such as 0.
C18_StdOfFewValuesIsNull ==
    /\ \A r \in Range(stats_csv["ventana_por_dia"].rows) : r.n < 2 => isna(r.std)
    /\ \A i \in 1..Len(agregacion.datos_con_std) :
          \A r \in Range(agregacion.datos_con_std[i].semanal) : r.n < 2 => isna(r.std)

---------------------------------------------------------------------------
(* Inputs of the alignment with unreadable instrument files *)

\* one sample of every instrument in the window of the first session
FilasFijas(sec) ==
    IF sec = "pvstand"
    THEN << [t |-> 2005, module |-> "perc1fixed", pmax |-> IntR(300), imax |-> IntR(9)] >>
    ELSE IF sec = "iv600"
    THEN << [t |-> 1405, module |-> "1MD439", pmp |-> IntR(200), isc |-> IntR(8)] >>
    ELSE IF sec = "dustiq" THEN << [t |-> 2005, SR_C11_Avg |-> IntR(90)] >>
    ELSE << [t |-> 2005, valor |-> IntR(1)] >>

\* the file of an instrument: absent, readable, without its time column,
\* or with a cell that is no timestamp
EstadosDeArchivo(sec) ==
    {NoModulo, ModuloCsv(FilasFijas(sec)), SinColumnaTiempo(FilasFijas(sec)),
     NoParseable(FilasFijas(sec))}

InitFallas ==
    /\ solys2_csv = NoSolys2
    /\ InitOutputs
    /\ soiling_kit_csv = SKFijoCsv
    /\ solar_noon = [d \in Dates |-> 2000]
    /\ \E du \in EstadosDeArchivo("dustiq"), rc \in EstadosDeArchivo("refcells"),
          pv \in EstadosDeArchivo("pvstand"), iv \in EstadosDeArchivo("iv600") :
          modulo_csv = [sec \in Sections |->
                          IF sec = "dustiq" THEN du
                          ELSE IF sec = "refcells" THEN rc
                          ELSE IF sec = "pvstand" THEN pv
                          ELSE IF sec = "iv600" THEN iv
                          ELSE NoModulo]

NextFallas ==
    \/ SeleccionarMediodiaSolar
    \/ \E aplicar_estabilidad \in BOOLEAN : RunAlign(aplicar_estabilidad)
    \/ \E usar_solo_dias_estables \in BOOLEAN : RunAnalisis(usar_solo_dias_estables)

SpecFallas == InitFallas /\ [][NextFallas]_vars

\* the instruments whose file is there and can be read
Legibles == {sec \in Sections : /\ modulo_csv[sec].exists
                                /\ modulo_csv[sec].has_time
                                /\ modulo_csv[sec].parsable}

\* the aligned rows of a readable instrument for the sessions of the run
AlineadasDe(sec) == out_df_de(filas_de(config_de(sec), modulo_csv[sec], align.sesiones))

\* C19: after run_align, whatever happened to the other instruments
\* (file missing, no time column, unparsable timestamp), every readable
\* instrument with data in the sessions has its aligned table written, and
\* the run was not aborted by an exception.
C19_InstrumentFailureIsIsolated ==
    align.ran =>
        /\ ~align.raised
        /\ \A sec \in Legibles :
              AlineadasDe(sec) # <<>> =>
                  /\ aligned_csv[sec].exists
                  /\ aligned_csv[sec].rows = AlineadasDe(sec)

---------------------------------------------------------------------------
(* Inputs of the SR stages: aligned tables that lack columns *)

MaxQuitadas == 1

\* df.drop(columns=Q)
sin_columnas(rows, Q) ==
    [i \in 1..Len(rows) |-> [c \in DOMAIN rows[i] \ Q |-> rows[i][c]]]

\* one complete aligned table per instrument
TablaCompleta(sec) ==
    CASE sec = "soilingkit" ->
           << [timestamp |-> 2005, dist_solar_noon_min |-> Rat(5, 2),
               Isce |-> IntR(2), Iscp |-> IntR(2)] >>
      [] sec = "dustiq" -> << [timestamp |-> 2005, SR_C11_Avg |-> IntR(99)] >>
      [] sec = "refcells" ->
           << [timestamp |-> 2005, RC411 |-> IntR(700), RC412 |-> IntR(800)] >>
      [] sec = "pv_glasses" ->
           << [timestamp |-> 2005, REF |-> IntR(100), R_FC3_Avg |-> IntR(95),
               R_FC4_Avg |-> IntR(90), R_FC5_Avg |-> IntR(95)] >>
      [] sec = "pvstand" ->
           << [timestamp |-> 2005, module |-> PVSTAND_MODULO_439_REF,
               pmax |-> IntR(100), imax |-> IntR(10)],
              [timestamp |-> 2005, module |-> PVSTAND_MODULO_440_SUCIO,
               pmax |-> IntR(85), imax |-> IntR(10)] >>
      [] sec = "iv600" ->
           << [timestamp |-> 2005, module |-> IV600_MODULO_REF,
               pmp |-> IntR(100), isc |-> IntR(10)],
              [timestamp |-> 2005, module |-> IV600_MODULO_SUCIO,
               pmp |-> IntR(85), isc |-> IntR(10)] >>
      [] sec = "temperatura" ->
           << [timestamp |-> 2005, TE416 |-> IntR(25), TE418 |-> IntR(45)] >>

\* every instrument has its aligned table; one of them lacks some columns
InitColumnas ==
    /\ InitAnalisis
    /\ soiling_kit_csv = [exists |-> FALSE, aware |-> FALSE, off |-> 0, rows |-> {}]
    /\ solar_noon = [d \in Dates |-> 2000]
    /\ solys2_csv = NoSolys2
    /\ modulo_csv = [sec \in Sections |-> NoModulo]
    /\ align = align0
    /\ filas = [sec \in Sections |-> <<>>]
    /\ sr_csv = [n \in SRNames |-> NoFile]
    /\ \E s0 \in DOMAIN NoAligned :
          \E Q \in SubsetsLE(DOMAIN TablaCompleta(s0)[1], MaxQuitadas) :
             /\ aligned_csv = [sec \in DOMAIN NoAligned |->
                                 AlignedCsv(IF sec = s0 THEN sin_columnas(TablaCompleta(sec), Q)
                                            ELSE TablaCompleta(sec))]
             /\ solar_noon_csv = AlignedCsv(IF s0 = "soilingkit"
                                            THEN sin_columnas(TablaCompleta(s0), Q)
                                            ELSE TablaCompleta("soilingkit"))

SpecColumnas == InitColumnas /\ [][NextSR]_vars

\* the columns a stage needs from the aligned table of its instrument
Requeridas(sec) ==
    CASE sec = "soilingkit" -> {"Isce", "Iscp"}
      [] sec = "dustiq" -> {"SR_C11_Avg"}
      [] sec = "refcells" -> {"RC411", "RC412"}
      [] sec = "pv_glasses" -> {"REF"}
      [] sec = "pvstand" -> {"module", "pmax"}
      [] sec = "iv600" -> {"module", "pmp", "isc"}
      [] sec = "temperatura" -> {"TE416", "TE418"}

FaltaRequerida(sec) ==
    \E c \in Requeridas(sec) : c \notin DOMAIN aligned_csv[sec].rows[1]

EtapasSR == {"calcular_sr", "run_sr_modulos", "run_pvstand_sr_corr", "run_iv600_sr_corr"}

\* C20: when the aligned table of an instrument lacks a column that its SR
\* formula needs, no SR table of that instrument is written and no SR
\* stage has raised an exception.
C20_MissingColumnSkipsWithoutRaising ==
    /\ EtapasSR \cap excepciones = {}
    /\ \A sec \in Range(MODULOS_SR) :
          FaltaRequerida(sec) => ~sr_csv[SrName(sec)].exists
    /\ (FaltaRequerida("pvstand") \/ FaltaRequerida("temperatura"))
          => ~sr_csv["pvstand_sr_corr"].exists
    /\ (FaltaRequerida("iv600") \/ FaltaRequerida("temperatura"))
          => ~sr_csv["iv600_sr_corr"].exists

---------------------------------------------------------------------------
(* One session per UTC day *)

\* the raw samples of a day that fall in the 5-minute window of centre c
MuestrasDeVentana(f, c) == {x \in MuestrasDelDia(f) : CentroDe(x) = c}

\* the centre of the window of day f nearest to its solar noon, the
\* earliest one on a tie
VentanaElegida(f) ==
    CHOOSE c \in {CentroDe(x) : x \in MuestrasDelDia(f)} :
        \A x \in MuestrasDelDia(f) :
            \/ Abs(CentroDe(x) - MediodiaDe(f)) > Abs(c - MediodiaDe(f))
            \/ Abs(CentroDe(x) - MediodiaDe(f)) = Abs(c - MediodiaDe(f)) /\ c <= CentroDe(x)

\* day f has data, its nearest window is within 50 minutes of solar noon
\* and the mean currents of that window reach 1.0 A
PasaSeleccion(f) ==
    /\ MuestrasDelDia(f) # {}
    /\ Abs(VentanaElegida(f) - MediodiaDe(f)) <= 50 * MIN
    /\ LET w == SeqOf(MuestrasDeVentana(f, VentanaElegida(f)))
       IN  /\ RLe(IntR(1), MeanR(w, "Isce"))
           /\ RLe(IntR(1), MeanR(w, "Iscp"))

\* the rows of the solar-noon table whose timestamp lies on day f
FilasDelDia(f) ==
    {i \in 1..Len(solar_noon_csv.rows) : solar_noon_csv.rows[i].timestamp \div DAY = f}

\* C21: the solar-noon table has exactly one row for every day that passes
\* the selection and no row for a day without data or a rejected day, so at
\* most one row per UTC day; the sessions loaded from it have pairwise
\* distinct dates in strictly increasing order.
C21_OneSessionPerDay ==
    solar_noon_csv.exists =>
        /\ \A f \in Dates :
              Cardinality(FilasDelDia(f)) = IF PasaSeleccion(f) THEN 1 ELSE 0
        /\ \A i \in 1..Len(solar_noon_csv.rows) :
              solar_noon_csv.rows[i].timestamp \div DAY \in Dates
        /\ LET ses == cargar_sesiones_soiling_kit(solar_noon_csv)
           IN  /\ Len(ses) = Len(solar_noon_csv.rows)
               /\ \A i, j \in 1..Len(ses) : i < j => ses[i].date < ses[j].date

\* a table with rows for two days, one of them chosen among several windows
\* with currents above the threshold
C21_Witness ==
    /\ solar_noon_csv.exists
    /\ Len(solar_noon_csv.rows) = 2
    /\ \E f \in Dates :
          /\ FilasDelDia(f) # {}
          /\ \E x, y \in MuestrasDelDia(f) :
                /\ CentroDe(x) # CentroDe(y)
                /\ x.Isce.num >= x.Isce.den /\ x.Iscp.num >= x.Iscp.den
                /\ y.Isce.num >= y.Isce.den /\ y.Iscp.num >= y.Iscp.den

---------------------------------------------------------------------------
(* Degraded mode of the stability classification *)

\* C22: when the reference irradiance file is missing, has no time column
\* or lacks the irradiance channel, the set of stable days is the set of
\* all session days, a warning reports that the filter is not applied, and
\* run_align removes no day: it uses every session and writes every row of
\* the solar-noon table to the aligned Soiling Kit table.
C22_DegradedModeKeepsAllDays ==
    (align.ran /\ ~Solys2Usable) =>
        /\ align.fechas_estables = {ses.date : ses \in Range(align.sesiones_cargadas)}
        /\ align.advertencia # "None"
        /\ align.sesiones = align.sesiones_cargadas
        /\ aligned_csv["soilingkit"].exists
        /\ Len(aligned_csv["soilingkit"].rows) = Len(solar_noon_csv.rows)
        /\ \A ses \in Range(align.sesiones_cargadas) :
              \E i \in 1..Len(filas["dustiq"]) :
                 filas["dustiq"][i].date = ses.date /\ filas["dustiq"][i].rows # <<>>

\* run_align with the stability filter enabled on two session days and a
\* reference file that exists but lacks the irradiance channel
C22_Witness ==
    /\ align.ran /\ align.aplicar_estabilidad
    /\ solys2_csv.exists /\ solys2_csv.has_time /\ ~solys2_csv.has_col
    /\ Len(align.sesiones_cargadas) = 2
    /\ Len(align.sesiones) = 2

\* run_align with the stability filter enabled and no reference file
C22_WitnessMissing ==
    /\ align.ran /\ align.aplicar_estabilidad
    /\ ~solys2_csv.exists
    /\ Len(align.sesiones) = 2

---------------------------------------------------------------------------
(* Time columns that carry a UTC offset *)

\* offsets a time column can carry: +00:00 and -04:00
OffsetsZona == {0, SANTIAGO_UTC_OFFSET}

\* wall clock values 16:42:30 and 12:42:30; the session centre is
\* 16:42:30 UTC
PvstandZonaCands == {[t |-> d * DAY + o, module |-> "perc1fixed", pmax |-> IntR(300), imax |-> IntR(9)] :
                        d \in Dates, o \in {1525, 2005}}
Iv600ZonaCands == {[t |-> d * DAY + o, module |-> "1MD439", pmp |-> IntR(200), isc |-> IntR(8)] :
                      d \in Dates, o \in {1525, 2005}}

\* a file whose time column is naive, or carries one of the offsets
ModuloZona(rows, aware, off) == [ModuloCsv(rows) EXCEPT !.aware = aware, !.off = off]

\* a session every day and one instrument, without tz_local (pvstand) or
\* with it (iv600), whose time column is naive or carries an offset
InitZona ==
    /\ soiling_kit_csv = SKFijoCsv
    /\ solar_noon = [d \in Dates |-> 2000]
    /\ solys2_csv = NoSolys2
    /\ InitOutputs
    /\ \E aware \in BOOLEAN : \E off \in (IF aware THEN OffsetsZona ELSE {0}) :
          \/ \E S \in SubsetsLE(PvstandZonaCands, MaxFilas) :
                modulo_csv = [sec \in Sections |->
                                IF sec = "pvstand" THEN ModuloZona(SeqOf(S), aware, off) ELSE NoModulo]
          \/ \E S \in SubsetsLE(Iv600ZonaCands, MaxFilas) :
                modulo_csv = [sec \in Sections |->
                                IF sec = "iv600" THEN ModuloZona(SeqOf(S), aware, off) ELSE NoModulo]

SpecZona == InitZona /\ [][NextAlign]_vars

\* the instant that row j of an instrument file with an offset denotes
InstanteConOffset(sec, j) == modulo_csv[sec].rows[j].t - modulo_csv[sec].off

\* C23 as stated: an aligned row that comes from a file whose time column
\* carries a UTC offset is stamped with the instant its source row denotes,
\* with or without tz_local.
C23_OffsetConvertedUnconditionally ==
    align.ran =>
        \A sec \in {"pvstand", "iv600"} :
            modulo_csv[sec].aware =>
                \A i \in 1..Len(filas[sec]) : \A k \in 1..Len(filas[sec][i].rows) :
                    \E j \in 1..Len(modulo_csv[sec].rows) :
                        /\ filas[sec][i].rows[k].timestamp = InstanteConOffset(sec, j)
                        /\ filas[sec][i].rows[k].module = modulo_csv[sec].rows[j].module

\* C23 amended: without tz_local (pvstand) the row is stamped with the
\* instant its source row denotes; with tz_local (iv600) the offset is
\* discarded and the wall clock value is read as local time of tz_local,
\* 4 hours behind UTC.
C23_OffsetConvertedUnlessTzLocal ==
    align.ran =>
        \A sec \in {"pvstand", "iv600"} :
            modulo_csv[sec].aware =>
                \A i \in 1..Len(filas[sec]) : \A k \in 1..Len(filas[sec][i].rows) :
                    \E j \in 1..Len(modulo_csv[sec].rows) :
                        /\ filas[sec][i].rows[k].timestamp =
                              IF sec = "iv600" THEN modulo_csv[sec].rows[j].t + 4 * 60 * MIN
                              ELSE InstanteConOffset(sec, j)
                        /\ filas[sec][i].rows[k].module = modulo_csv[sec].rows[j].module

\* an aligned iv600 row from a file whose times are stamped +00:00
C23_Witness ==
    /\ align.ran
    /\ modulo_csv["iv600"].aware /\ modulo_csv["iv600"].off = 0
    /\ \E i \in 1..Len(filas["iv600"]) : filas["iv600"][i].rows # <<>>

\* an aligned pvstand row from a file whose times are stamped -04:00
C23_WitnessSinTzLocal ==
    /\ align.ran
    /\ modulo_csv["pvstand"].aware /\ modulo_csv["pvstand"].off = SANTIAGO_UTC_OFFSET
    /\ \E i \in 1..Len(filas["pvstand"]) : filas["pvstand"][i].rows # <<>>

---------------------------------------------------------------------------
(* Intersection view of the ANOVA *)

\* the observations of the normalised table: one per week and instrument
\* with a value
Pool ==
    LET celdas == {c \in (1..Len(sr_semanal_norm.rows)) \X Range(InstrumentosNorm) :
                      ~isna(sr_semanal_norm.rows[c[1]][c[2]])}
    IN  {[semana |-> sr_semanal_norm.rows[c[1]].semana, instrumento |-> c[2],
          sr_norm |-> sr_semanal_norm.rows[c[1]][c[2]]] : c \in celdas}

\* week w has an observation of every instrument that occurs in the pool
SemanaCompleta(w) ==
    \A o \in Pool : \E q \in Pool : q.semana = w /\ q.instrumento = o.instrumento

\* C24: the intersection view holds exactly the pool observations whose
\* week has an observation of every instrument present in the pool, so it
\* is a subset of the pool, and every instrument has the same number of
\* weeks in it.
C24_IntersectionIsCompleteWeeks ==
    anova.ran =>
        LET pool  == anova.datos["Pool completo"]
            inter == anova.datos["Interseccion"]
        IN  /\ Range(pool) = Pool /\ Len(pool) = Cardinality(Pool)
            /\ Range(inter) = {o \in Pool : SemanaCompleta(o.semana)}
            /\ Len(inter) = Cardinality(Range(inter))
            /\ Range(inter) \subseteq Range(pool)
            /\ \A a, b \in {o.instrumento : o \in Pool} :
                  Cardinality({o \in Range(inter) : o.instrumento = a})
                    = Cardinality({o \in Range(inter) : o.instrumento = b})

\* a pool of three instruments of which one lacks a week: the week is
\* left out of the intersection, which keeps two or more weeks
C24_Witness ==
    /\ anova.ran
    /\ Cardinality({o.instrumento : o \in Pool}) = 3
    /\ Len(anova.datos["Interseccion"]) < Len(anova.datos["Pool completo"])
    /\ Len(anova.datos["Interseccion"]) >= 6

---------------------------------------------------------------------------
(* Writers of the SR tables *)

\* C25: no SR stage modifies a file it reads as input, and an SR table that
\* exists is not overwritten with other content while the inputs are
\* unchanged: every output file has a single writer.
C25_OutputsHaveSingleWriter ==
    [][/\ solar_noon_csv' = solar_noon_csv
       /\ aligned_csv' = aligned_csv
       /\ \A n \in SRNames : sr_csv[n].exists => sr_csv'[n] = sr_csv[n]]_vars

---------------------------------------------------------------------------
(* IV600 from the instrument file to the SR table *)

\* local wall clock: both modules traced at the session centre (12:42:30)
\* or 60 minutes after it
Iv600ParCands == {[t |-> d * DAY + o, module |-> m,
                   pmp |-> IF m = IV600_MODULO_REF THEN IntR(100) ELSE IntR(85),
                   isc |-> IntR(8)] :
                     d \in Dates, o \in {1525, 1645}, m \in {IV600_MODULO_REF, IV600_MODULO_SUCIO}}

\* a session every day, no reference irradiance file, an IV600 file
InitIv600 ==
    /\ soiling_kit_csv = SKFijoCsv
    /\ solar_noon = [d \in Dates |-> 2000]
    /\ solys2_csv = NoSolys2
    /\ InitOutputs
    /\ \E S \in SubsetsLE(Iv600ParCands, MaxFilas) \ {{}} :
          modulo_csv = [sec \in Sections |->
                          IF sec = "iv600" THEN ModuloCsv(SeqOf(S)) ELSE NoModulo]

NextIv600 ==
    \/ SeleccionarMediodiaSolar
    \/ \E aplicar_estabilidad \in BOOLEAN : RunAlign(aplicar_estabilidad)
    \/ RunSrModulos

SpecIv600 == InitIv600 /\ [][NextIv600]_vars

\* the pairs of rows of the IV600 file, reference and soiled module at the
\* same timestamp, within 60 minutes of the centre of a session
ParesIv600(ses) ==
    {p \in (1..Len(modulo_csv["iv600"].rows)) \X (1..Len(modulo_csv["iv600"].rows)) :
        /\ modulo_csv["iv600"].rows[p[1]].module = IV600_MODULO_REF
        /\ modulo_csv["iv600"].rows[p[2]].module = IV600_MODULO_SUCIO
        /\ modulo_csv["iv600"].rows[p[1]].t = modulo_csv["iv600"].rows[p[2]].t
        /\ Distancia("iv600", p[1], ses) <= 60 * MIN}

\* C26: once run_align and run_sr_modulos have run, every session day on
\* which the IV600 file has the reference and the soiled module at the same
\* timestamp within 60 minutes of the session centre has a row in the IV600
\* SR table with a non-null SR_Pmax_434 = 100 * pmp(434) / pmp(439).
C26_Iv600EndToEnd ==
    (align.ran /\ sr_csv["soilingkit_sr"].exists) =>
        \A ses \in SesionesUsadas :
            ParesIv600(ses) # {} =>
                /\ sr_csv["iv600_sr"].exists
                /\ \E i \in 1..Len(sr_csv["iv600_sr"].rows) : \E p \in ParesIv600(ses) :
                      LET fila == sr_csv["iv600_sr"].rows[i]
                      IN  /\ dt_date(fila.timestamp) = ses.date
                          /\ ~isna(fila.SR_Pmax_434)
                          /\ fila.SR_Pmax_434 = pct(modulo_csv["iv600"].rows[p[2]].pmp,
                                                    modulo_csv["iv600"].rows[p[1]].pmp)

---------------------------------------------------------------------------
(* Stable days in the alignment and in the statistics *)

\* both stages with their stability option enabled
NextEstables ==
    \/ SeleccionarMediodiaSolar
    \/ RunAlign(TRUE)
    \/ RunAnalisis(TRUE)

SpecEstables == InitStab /\ [][NextEstables]_vars

\* the session days run_analisis worked on: the DustIQ file has a sample in
\* the window of every session, so each of them has a per-day row
DiasAnalizados == {r.fecha : r \in Range(stats_csv["ventana_por_dia"].rows)}

\* the session days run_align worked on
DiasAlineados == {ses.date : ses \in Range(align.sesiones)}

\* C27: run_align(aplicar_estabilidad=True) and
\* run_analisis(usar_solo_dias_estables=True) work on the same set of
\* session days, whatever the reference irradiance file holds.
C27_SameDaysInAlignAndStats ==
    (align.ran /\ stats_csv["ventana_por_dia"].exists) => DiasAlineados = DiasAnalizados

---------------------------------------------------------------------------
(* Temperature joined to the two-module instruments *)

\* distance of an aligned IV600 row to the session centre: 0, 15, 15.5 and
\* 60 minutes; of an aligned PVStand row: 0 and 7.5 minutes
OffsIv600 == {0, 15 * MIN, 15 * MIN + 1, MAX_DISTANCIA_IRREGULAR_MIN * MIN}
OffsPvstand == {0, TOL_5MIN}

\* both modules traced at time ts
ParIv600(ts) ==
    << [timestamp |-> ts, module |-> IV600_MODULO_REF, pmp |-> IntR(100), isc |-> IntR(10)],
       [timestamp |-> ts, module |-> IV600_MODULO_SUCIO, pmp |-> IntR(95), isc |-> IntR(10)] >>
ParPvstand(ts) ==
    << [timestamp |-> ts, module |-> PVSTAND_MODULO_439_REF, pmax |-> IntR(100), imax |-> IntR(10)],
       [timestamp |-> ts, module |-> PVSTAND_MODULO_440_SUCIO, pmax |-> IntR(95), imax |-> IntR(10)] >>

\* the aligned tables run_align leaves for sessions centred at TsSR: the
\* temperature rows carry the session centre, the rows of the two-module
\* instrument their own time; a day has the row of one module or of both
InitTemp ==
    /\ InitAnalisis
    /\ soiling_kit_csv = [exists |-> FALSE, aware |-> FALSE, off |-> 0, rows |-> {}]
    /\ solar_noon = [d \in Dates |-> 2000]
    /\ solar_noon_csv = NoFile
    /\ solys2_csv = NoSolys2
    /\ modulo_csv = [sec \in Sections |-> NoModulo]
    /\ align = align0
    /\ filas = [sec \in Sections |-> <<>>]
    /\ sr_csv = [n \in SRNames |-> NoFile]
    /\ \E DT \in SUBSET TsSR : \E T \in [TsSR -> {IntR(25), IntR(45)}] :
       \E DI \in (SUBSET TsSR) \ {{}} : \E K \in [TsSR -> {{1}, {2}, {1, 2}}] :
          LET temp == SortByTimestamp({[timestamp |-> c, TE416 |-> IntR(25), TE418 |-> T[c]] : c \in DT})
              dia(i) == SortInts(DI)[i]
              tabla(par(_), off) ==
                  Concat([i \in 1..Cardinality(DI) |->
                            SelectSeq(par(dia(i) + off[dia(i)]),
                                      LAMBDA r : \E k \in K[dia(i)] : r = par(dia(i) + off[dia(i)])[k])])
          IN  \/ \E off \in [TsSR -> OffsIv600] :
                    aligned_csv = [NoAligned EXCEPT
                                     !["iv600"] = AlignedCsv(tabla(ParIv600, off)),
                                     !["temperatura"] = IF DT = {} THEN NoFile ELSE AlignedCsv(temp)]
              \/ \E off \in [TsSR -> OffsPvstand] :
                    aligned_csv = [NoAligned EXCEPT
                                     !["pvstand"] = AlignedCsv(tabla(ParPvstand, off)),
                                     !["temperatura"] = IF DT = {} THEN NoFile ELSE AlignedCsv(temp)]

NextTemp ==
    \/ RunSrModulos
    \/ RunPvstandSrCorr
    \/ RunIv600SrCorr

SpecTemp == InitTemp /\ [][NextTemp]_vars

\* the temperature row of the session day of time ts, as a set
TempDelDia(ts) ==
    {r \in Range(aligned_csv["temperatura"].rows) : dt_date(r.timestamp) = dt_date(ts)}

\* C28: once a temperature-corrected SR stage has run, every aligned row
\* of its instrument whose session day has a row in the aligned temperature
\* table is joined to the module temperatures of that row; so every
\* timestamp with a non-null uncorrected SR on such a day has a non-null
\* corrected SR, and a PVStand row carries that day's temperatures.
C28_TemperatureOfTheSameDay ==
    /\ \A sec \in {"pvstand", "iv600"} :
          sr_csv[IF sec = "iv600" THEN "iv600_sr_corr" ELSE "pvstand_sr_corr"].exists =>
              \A r \in Range(aligned_csv[sec].rows) : \A t \in TempDelDia(r.timestamp) :
                  /\ T_asof(aligned_csv["temperatura"].rows, r.timestamp, "TE416") = t.TE416
                  /\ T_asof(aligned_csv["temperatura"].rows, r.timestamp, "TE418") = t.TE418
    /\ (sr_csv["iv600_sr"].exists /\ sr_csv["iv600_sr_corr"].exists) =>
          \A r \in Range(sr_csv["iv600_sr"].rows) :
              (~isna(r.SR_Pmax_434) /\ TempDelDia(r.timestamp) # {}) =>
                  \E c \in Range(sr_csv["iv600_sr_corr"].rows) :
                      c.timestamp = r.timestamp /\ ~isna(c.SR_Pmax_corr_434)
    /\ (sr_csv["pvstand_sr"].exists /\ sr_csv["pvstand_sr_corr"].exists) =>
          \A r \in Range(sr_csv["pvstand_sr"].rows) :
              (~isna(r.SR_Pmax) /\ TempDelDia(r.timestamp) # {}) =>
                  \E c \in Range(sr_csv["pvstand_sr_corr"].rows) :
                      /\ c.timestamp = r.timestamp /\ ~isna(c.SR_Pmax_corr)
                      /\ \E t \in TempDelDia(r.timestamp) : c.T439 = t.TE418 /\ c.T440 = t.TE416

---------------------------------------------------------------------------
(* Range of the weekly Q25 *)

\* the non-null daily values of an instrument's SR table in the week
\* starting on Monday w
ValoresDelArchivo(nombre, w) ==
    LET cfg == build_config[CHOOSE k \in 1..Len(build_config) : build_config[k].nombre = nombre]
    IN  {r[cfg.col_sr] : r \in {x \in Range(sr_csv[cfg.archivo].rows) :
                                   /\ ~isna(x[cfg.col_sr])
                                   /\ LunesAnterior(x.timestamp \div DAY) = w}}

---------------------------------------------------------------------------
(* The current guard from the selector to the Soiling Kit SR table *)

\* raw samples in the window nearest to solar noon (16:40 UTC) and in a
\* window 47.5 minutes before it
CorrienteCands == {[t |-> d * DAY + o, Isce |-> c[1], Iscp |-> c[2]] :
                      d \in Dates, o \in {1900, 2000}, c \in IscPairs}

InitCorriente ==
    /\ soiling_kit_csv \in {[exists |-> TRUE, aware |-> FALSE, off |-> 0, rows |-> S] :
                               S \in SubsetsLE(CorrienteCands, MaxSK)}
    /\ solar_noon = [d \in Dates |-> 2000]
    /\ solys2_csv = NoSolys2
    /\ modulo_csv = [sec \in Sections |-> NoModulo]
    /\ InitOutputs

NextCorriente ==
    \/ SeleccionarMediodiaSolar
    \/ \E aplicar_estabilidad \in BOOLEAN : RunAlign(aplicar_estabilidad)
    \/ CalcularSr
    \/ RunSrModulos

SpecCorriente == InitCorriente /\ [][NextCorriente]_vars

\* both currents of a row reach 1.0 A
CorrientesOk(r) == r.Isce.den > 0 /\ r.Isce.num >= r.Isce.den
                   /\ r.Iscp.den > 0 /\ r.Iscp.num >= r.Iscp.den

\* the window of day f nearest to solar noon has a mean current below 1.0 A
VentanaElegidaBaja(f) ==
    /\ MuestrasDelDia(f) # {}
    /\ LET w == SeqOf(MuestrasDeVentana(f, VentanaElegida(f)))
       IN  RLt(MeanR(w, "Isce"), IntR(1)) \/ RLt(MeanR(w, "Iscp"), IntR(1))

\* C30: the current guard acts after the choice of the nearest window: a
\* day whose nearest window has a mean Isc(e) or Isc(p) below 1.0 A has no
\* row, no other window takes its place; every row of the solar-noon table,
\* of the aligned Soiling Kit table and of the Soiling Kit SR table has both
\* currents at or above 1.0 A.
C30_CurrentGuardAfterSelection ==
    /\ solar_noon_csv.exists =>
          /\ \A f \in Dates : VentanaElegidaBaja(f) => FilasDelDia(f) = {}
          /\ \A r \in Range(solar_noon_csv.rows) : CorrientesOk(r)
    /\ aligned_csv["soilingkit"].exists =>
          /\ \A r \in Range(aligned_csv["soilingkit"].rows) : CorrientesOk(r)
          /\ \A f \in Dates : VentanaElegidaBaja(f) =>
                \A r \in Range(aligned_csv["soilingkit"].rows) : dt_date(r.timestamp) # f
    /\ sr_csv["soilingkit_sr"].exists =>
          /\ \A r \in Range(sr_csv["soilingkit_sr"].rows) : CorrientesOk(r)
          /\ \A f \in Dates : VentanaElegidaBaja(f) =>
                \A r \in Range(sr_csv["soilingkit_sr"].rows) : dt_date(r.timestamp) # f

\* a day whose nearest window has Isc(e) = 0.5 A and whose earlier window,
\* within 50 minutes of solar noon, has both currents above 1.0 A, left
\* without a row while the three tables were written for the other day
C30_Witness ==
    /\ solar_noon_csv.exists /\ aligned_csv["soilingkit"].exists /\ sr_csv["soilingkit_sr"].exists
    /\ sr_csv["soilingkit_sr"].rows # <<>>
    /\ \E f \in Dates :
          /\ VentanaElegidaBaja(f)
          /\ FilasDelDia(f) = {}
          /\ \E x \in MuestrasDelDia(f) :
                /\ CentroDe(x) # VentanaElegida(f)
                /\ Abs(CentroDe(x) - MediodiaDe(f)) <= 50 * MIN
                /\ CorrientesOk(x)

====
